---- MODULE Spec2Model ----
(***************************************************************************)
(* Model of the auto-sweep-bot core: the per-(user, chain) polling loop of *)
(* sweeper.js, the MultiUserSweeper registry, the PriceManager cache and   *)
(* queue, and the gas helpers of wallet-utils.                             *)
(*                                                                         *)
(* Amounts of native currency are whole gwei (1 ether = EtherUnit gwei).   *)
(* USD prices and thresholds are integers of one common USD unit; the      *)
(* source compares floating point products, the model compares the exact   *)
(* rational products.                                                      *)
(***************************************************************************)
EXTENDS Integers, Sequences, FiniteSets, Bags, TLC

\* ------------------------------------------------------------- bounds
MaxLoops == 2        \* loop closures alive at once (startSweeper calls)

\* ------------------------------------------------------------- constants
BasicTransferGas == 21000      \* gas units of a native transfer
TokenTransferGas == 78000      \* conservative ERC-20 gas (65k + 20%)
DefaultUsdThreshold == 1       \* config.usdThreshold || 1
DefaultNativeUsdThreshold == 10 \* config.nativeUsdThreshold || 10
FallbackGweiLegacy == 100      \* feeData.gasPrice || parseUnits("100", "gwei")
FallbackGweiError == 150       \* parseUnits("150", "gwei") when getFeeData throws
EtherUnit == 10 ^ 9            \* gwei per ether (formatEther)
SplitUnit == 10 ^ 5            \* splits a product to stay within 32-bit integers

\* ------------------------------------------------------------- domains
Users == {"u1", "u2"}
ChainKeys == {"ethereum", "polygon", "doge"}
SupportedChains == {"ethereum", "polygon"}     \* keys of CHAINS / TESTNET_CHAINS
Keys == Users \X ChainKeys
TxIds == {"0xa", "0xb"}
NoTx == "null"

VARIABLES
  runningSweepers,        \* userChainKey -> boolean (absent = FALSE)
  processingTransactions, \* userChainKey -> boolean (absent = FALSE)
  processedTransactions,  \* Set of tx hashes, in insertion order
  loops,                  \* the live loop closures created by startSweeper (a bag)
  userSweepers,           \* MultiUserSweeper.userSweepers: the keys it holds
  userSweeperStates,      \* MultiUserSweeper.userSweeperStates
  env,                    \* the configuration and what the collaborators may answer
  lastCall,               \* the registry call of the last step and what it returned
  notifyCount,            \* sweep notifications sent per tx hash (saturates at 2)
  sinceClear,             \* the same, counted since the hash last left processedTransactions
  startedSinceStop        \* key -> a start call returned true since the last stop of the key

engineVars == <<runningSweepers, processingTransactions, processedTransactions,
                loops, userSweepers, userSweeperStates, env, lastCall,
                notifyCount, sinceClear, startedSinceStop>>

\* the shared PriceManager instance and its callers
VARIABLES
  cache,                  \* symbol -> { price, timestamp }, the timestamp as an age
  pendingRequests,        \* symbol -> the caller whose request promise is pending (0: none)
  requestQueue,           \* the queued { symbol, resolve, reject } items
  isProcessingQueue,
  rateLimited,            \* Date.now() - lastRequestTime < RATE_LIMIT_DELAY
  queuePc,                \* where the _processQueue call that holds the flag is suspended
  queueTimers,            \* pending setTimeout(() => this._processQueue(), RATE_LIMIT_DELAY)
  fetches,                \* the _batchFetchPrices calls in flight, by who awaits them
  callers                 \* the callers of getPrice and getPrices

priceVars == <<cache, pendingRequests, requestQueue, isProcessingQueue, rateLimited,
               queuePc, queueTimers, fetches, callers>>

\* ------------------------------------------------------------- helpers
Min(a, b) == IF a < b THEN a ELSE b

RECURSIVE SumSeq(_)
SumSeq(s) == IF s = <<>> THEN 0 ELSE Head(s) + SumSeq(Tail(s))

\* String.prototype.toLowerCase on the symbols the model uses
ToLowerCase(s) ==
  CASE s = "ETH" -> "eth"
    [] s = "Eth" -> "eth"
    [] s = "USDC" -> "usdc"
    [] s = "DAI" -> "dai"
    [] s = "LINK" -> "link"
    [] s = "MATIC" -> "matic"
    [] OTHER -> s

\* getChainConfigWithMode(chainKey)?.nativeSymbol || "ETH"
NativeSymbol(chainKey) == IF chainKey = "polygon" THEN "MATIC" ELSE "ETH"


\* ------------------------------------------------------------- gas (wallet-utils)
\* A fee-data answer: ok = FALSE when provider.getFeeData() throws; 0 stands for
\* null (and for 0n, which the code tests the same way).
NoGasPricing == [type |-> 0, gasPrice |-> 0, maxFeePerGas |-> 0, maxPriorityFeePerGas |-> 0]

\* the fee level without the test that keeps the tip within the cap
GetOptimalGasPricingNoClamp(feeData) ==
  IF ~feeData.ok
  THEN [type |-> 0, gasPrice |-> FallbackGweiError,
        maxFeePerGas |-> 0, maxPriorityFeePerGas |-> 0]
  ELSE IF feeData.maxFeePerGas # 0 /\ feeData.maxPriorityFeePerGas # 0
  THEN [type |-> 2,
        maxFeePerGas |-> feeData.maxFeePerGas + (feeData.maxFeePerGas * 50) \div 100,
        maxPriorityFeePerGas |->
          feeData.maxPriorityFeePerGas + (feeData.maxPriorityFeePerGas * 50) \div 100,
        gasPrice |-> 0]
  ELSE LET networkGasPrice ==
             IF feeData.gasPrice # 0 THEN feeData.gasPrice ELSE FallbackGweiLegacy
       IN [type |-> 0, gasPrice |-> networkGasPrice + (networkGasPrice * 50) \div 100,
           maxFeePerGas |-> 0, maxPriorityFeePerGas |-> 0]

\* getOptimalGasPricing(provider), from the answer of provider.getFeeData()
GetOptimalGasPricing(feeData) ==
  IF ~feeData.ok
  THEN [type |-> 0, gasPrice |-> FallbackGweiError,
        maxFeePerGas |-> 0, maxPriorityFeePerGas |-> 0]
  ELSE IF feeData.maxFeePerGas # 0 /\ feeData.maxPriorityFeePerGas # 0
  THEN LET aggressiveMaxFee ==
             feeData.maxFeePerGas + (feeData.maxFeePerGas * 50) \div 100
           aggressivePriorityFee ==
             feeData.maxPriorityFeePerGas + (feeData.maxPriorityFeePerGas * 50) \div 100
       IN [type |-> 2, maxFeePerGas |-> aggressiveMaxFee,
           maxPriorityFeePerGas |->
             IF aggressivePriorityFee > aggressiveMaxFee
             THEN aggressiveMaxFee ELSE aggressivePriorityFee,
           gasPrice |-> 0]
  ELSE LET networkGasPrice ==
             IF feeData.gasPrice # 0 THEN feeData.gasPrice ELSE FallbackGweiLegacy
       IN [type |-> 0, gasPrice |-> networkGasPrice + (networkGasPrice * 50) \div 100,
           maxFeePerGas |-> 0, maxPriorityFeePerGas |-> 0]

\* gasPricing.gasPrice || gasPricing.maxFeePerGas
EffectiveGasPrice(gasPricing) ==
  IF gasPricing.gasPrice # 0 THEN gasPricing.gasPrice ELSE gasPricing.maxFeePerGas

BasicTransferCost(effectiveGasPrice) == effectiveGasPrice * BasicTransferGas
TokenTransferCost(effectiveGasPrice) == effectiveGasPrice * TokenTransferGas

\* an estimation without buffer: the raw estimate, 65000 when it fails
BufferedGasNoBuffer(est) == IF est.ok THEN est.gas ELSE 65000

\* One estimate per token: ok = FALSE when contract.transfer.estimateGas throws.
BufferedGas(est) ==
  IF est.ok THEN est.gas + (est.gas * 20) \div 100 ELSE TokenTransferGas

RECURSIVE EstimateTokenGasCosts(_)
EstimateTokenGasCosts(estimates) ==
  IF estimates = <<>> THEN 0
  ELSE BufferedGas(Head(estimates)) + EstimateTokenGasCosts(Tail(estimates))

\* ------------------------------------------------------------- decision (loop)
ValueScale == 10 ^ 2     \* token values are kept in 1/100 of the USD unit

\* 10^(2 - decimals): formatUnits(balance, decimals) brought to the value scale
DecimalsFactor(decimals) == 10 ^ (2 - decimals)

\* a missing price read as 1
PriceOfDefaultOne(prices, symbol) == IF symbol \in DOMAIN prices THEN prices[symbol] ELSE 1

\* allPrices[symbol]?.usd || 0
PriceOf(prices, symbol) == IF symbol \in DOMAIN prices THEN prices[symbol] ELSE 0

\* amountReadable * price, in 1/ValueScale of the USD unit
ValueUSD(token, prices) ==
  token.balance * DecimalsFactor(token.decimals)
    * PriceOf(prices, ToLowerCase(token.symbol))

UsdThreshold(config) ==
  IF config.usdThreshold # 0 THEN config.usdThreshold ELSE DefaultUsdThreshold
NativeUsdThreshold(config) ==
  IF config.nativeUsdThreshold # 0 THEN config.nativeUsdThreshold
  ELSE DefaultNativeUsdThreshold

\* the filter with > in place of >=
TokenKeptStrict(token, prices, config) ==
  /\ token.symbol # "undef"
  /\ ValueUSD(token, prices) > UsdThreshold(config) * ValueScale

\* valueUSD >= (config.usdThreshold || 1); a token without symbol throws in
\* token.symbol.toLowerCase() and the inner catch skips it
TokenKept(token, prices, config) ==
  /\ token.symbol # "undef"
  /\ ValueUSD(token, prices) >= UsdThreshold(config) * ValueScale

RECURSIVE EvaluateTokens(_, _, _)
EvaluateTokens(tokens, prices, config) ==
  IF tokens = <<>> THEN <<>>
  ELSE LET t == Head(tokens)
           rest == EvaluateTokens(Tail(tokens), prices, config)
       IN IF TokenKept(t, prices, config)
          THEN <<[contract |-> t.contract, symbol |-> t.symbol,
                  valueUSD |-> ValueUSD(t, prices)]>> \o rest
          ELSE rest

\* tokensToSweep.sort((a, b) => b.valueUSD - a.valueUSD): stable, descending
RECURSIVE InsertDesc(_, _)
InsertDesc(x, sorted) ==
  IF sorted = <<>> THEN <<x>>
  ELSE IF Head(sorted).valueUSD >= x.valueUSD
       THEN <<Head(sorted)>> \o InsertDesc(x, Tail(sorted))
       ELSE <<x>> \o sorted

\* the plan left in listing order
SortNone(s) == s

RECURSIVE SortDesc(_)
SortDesc(s) ==
  IF s = <<>> THEN <<>>
  ELSE InsertDesc(s[Len(s)], SortDesc(SubSeq(s, 1, Len(s) - 1)))

TokensToSweep(tokens, prices, config) ==
  SortDesc(EvaluateTokens(tokens, prices, config))

\* the dust test that forgets the cost of the token transfer
IsDustForTokensBasicOnly(nativeBalance, nKept, effectiveGasPrice) ==
  /\ nKept > 0
  /\ nativeBalance < BasicTransferCost(effectiveGasPrice)

\* nativeBalance < minimumNeeded && tokensToSweep.length > 0
IsDustForTokens(nativeBalance, nKept, effectiveGasPrice) ==
  /\ nKept > 0
  /\ nativeBalance < BasicTransferCost(effectiveGasPrice)
                       + TokenTransferCost(effectiveGasPrice)

\* nativeBalance < basicTransferCost && nativeBalance > 0n
IsDustForNative(nativeBalance, effectiveGasPrice) ==
  /\ nativeBalance < BasicTransferCost(effectiveGasPrice)
  /\ nativeBalance > 0

\* gasReserve ? basicTransferCost + gasReserve * effectiveGasPrice : basicTransferCost
TotalGasNeeded(gasReserve, effectiveGasPrice) ==
  IF gasReserve # 0
  THEN BasicTransferCost(effectiveGasPrice) + gasReserve * effectiveGasPrice
  ELSE BasicTransferCost(effectiveGasPrice)

\* the sweepable amount that forgets the gas reserved for the tokens
SweepableAmountNoReserve(nativeBalance, gasReserve, effectiveGasPrice) ==
  nativeBalance - BasicTransferCost(effectiveGasPrice)

SweepableAmount(nativeBalance, gasReserve, effectiveGasPrice) ==
  nativeBalance - TotalGasNeeded(gasReserve, effectiveGasPrice)

\* Number(formatEther(amount)) * price >= threshold, that is
\* amount * price >= threshold * EtherUnit, evaluated in two parts
NativeValueMeets(amount, price, threshold) ==
  (amount \div SplitUnit) * price + ((amount % SplitUnit) * price) \div SplitUnit
    >= threshold * (EtherUnit \div SplitUnit)

\* the native evaluation without the test against nativeUsdThreshold
ShouldSweepNativeNoThreshold(nativeBalance, gasReserve, effectiveGasPrice, prices, chainKey, config) ==
  LET nativePrice == PriceOf(prices, ToLowerCase(NativeSymbol(chainKey)))
      sweepableAmount == SweepableAmount(nativeBalance, gasReserve, effectiveGasPrice)
  IN /\ nativeBalance > BasicTransferCost(effectiveGasPrice) + gasReserve
     /\ sweepableAmount > 0
     /\ nativePrice # 0

ShouldSweepNative(nativeBalance, gasReserve, effectiveGasPrice, prices, chainKey, config) ==
  LET nativePrice == PriceOf(prices, ToLowerCase(NativeSymbol(chainKey)))
      sweepableAmount == SweepableAmount(nativeBalance, gasReserve, effectiveGasPrice)
  IN /\ nativeBalance > BasicTransferCost(effectiveGasPrice) + gasReserve
     /\ sweepableAmount > 0
     /\ nativePrice # 0
     /\ NativeValueMeets(sweepableAmount, nativePrice, NativeUsdThreshold(config))

\* ------------------------------------------------------------- loop closures
\* One record per closure created by startSweeper (wallet, isFirstRun and the
\* locals of loop()). pc is the await the tick is suspended at, "timer" a pending
\* setTimeout(loop, pollInterval), "returned" a closure whose loop() has returned for good. The locals keep the values
\* of the last tick until the next one begins.
TickLocals ==
  [nativeBalance |-> 0, effectiveGasPrice |-> 0, tokens |-> <<>>,
   allPrices |-> <<>>, tokensToSweep |-> <<>>, gasReserve |-> 0,
   shouldSweepNative |-> FALSE, idx |-> 0,
   evaluated |-> FALSE,    \* the evaluation loop of lines 625-647 has run
   outcome |-> "none",     \* how the tick ended or where it is
   submitted |-> <<>>,     \* transfers submitted in this tick, in order
   notified |-> <<>>,      \* transfers this tick called notify for, in order
   attempted |-> <<>>,     \* the sweepNative / sweepToken calls of this tick, in order
   failed |-> <<>>,        \* the calls among them that threw
   lastWait |-> "none",    \* how the confirmation wait of the last call ended
   nativeTx |-> [balance |-> 0, value |-> 0, feePrice |-> 0]]

ExecPcs == {"awaitNative", "awaitToken"}
TickPcs == {"awaitBalance", "awaitGas", "awaitTokens", "awaitPrices",
            "awaitEstimate"} \cup ExecPcs

\* the closure whose loop() returned at its running check: nothing holds it any more
Returned == [key |-> <<"", "">>, pc |-> "returned", isFirstRun |-> FALSE,
             tick |-> TickLocals]

Live == BagToSet(loops)
\* the number of live closures of a key
LoopsOf(key) ==
  LET ofKey == {lp \in Live : lp.key = key}
      counts == [lp \in ofKey |-> loops[lp]]
  IN BagCardinality(counts)
NumLoops == BagCardinality(loops)
NoCall == [op |-> "none", user |-> "", chain |-> "", ret |-> "", count |-> 0,
           notified |-> FALSE]

\* ------------------------------------------------------------- sweeper.js
\* scheduleNextLoop(): clears isFirstRun and arms setTimeout(loop, pollInterval)
ScheduleNextLoop(loop, outcome) ==
  [loop EXCEPT !.pc = "timer", !.isFirstRun = FALSE, !.tick.outcome = outcome]

\* startSweeper with a getWalletFromMnemonic that accepts every chain key
StartSweeperResultAnyChain(key) ==
  IF runningSweepers[key] THEN "running" ELSE "started"

\* startSweeper(chainKey, config, mnemonic, destAddress, notify, userId):
\* "running" when the key already runs, "throws" when getWalletFromMnemonic
\* rejects the chain, else "started"
StartSweeperResult(key) ==
  IF runningSweepers[key] THEN "running"
  ELSE IF key[2] \notin SupportedChains THEN "throws"
  ELSE "started"

\* a startSweeper that arms the timer instead of calling loop(): the first tick
\* waits for pollInterval
StartSweeperEffAfterInterval(key) ==
  IF StartSweeperResult(key) = "started"
  THEN /\ NumLoops < MaxLoops
       /\ runningSweepers' = [runningSweepers EXCEPT ![key] = TRUE]
       /\ processingTransactions' = [processingTransactions EXCEPT ![key] = FALSE]
       /\ loops' = loops (+) SetToBag({[key |-> key, pc |-> "timer",
                                         isFirstRun |-> TRUE, tick |-> TickLocals]})
  ELSE UNCHANGED <<runningSweepers, processingTransactions, loops>>

\* The state after startSweeper: the start notification, both flags, and the
\* first loop() call up to its first await (provider.getBalance).
StartSweeperEff(key) ==
  IF StartSweeperResult(key) = "started"
  THEN /\ NumLoops < MaxLoops
       /\ runningSweepers' = [runningSweepers EXCEPT ![key] = TRUE]
       /\ processingTransactions' = [processingTransactions EXCEPT ![key] = FALSE]
       /\ loops' = loops (+) SetToBag({[key |-> key, pc |-> "awaitBalance",
                                         isFirstRun |-> TRUE, tick |-> TickLocals]})
  ELSE UNCHANGED <<runningSweepers, processingTransactions, loops>>

\* a stopSweeper that goes by the chain alone, whoever the user is
StopSweeperFlagsByChain(keys, flags) ==
  [k \in Keys |-> IF \E s \in keys : s[2] = k[2] THEN FALSE ELSE flags[k]]

\* stopSweeper(chainKey, userId) for each key of the set
StopSweeperFlags(keys, flags) == [k \in Keys |-> IF k \in keys THEN FALSE ELSE flags[k]]

\* cleanupProcessedTransactions(): above 1000 entries keep the last 500
CleanupLimit == 1000
CleanupKeep == 500
\* a cleanup that keeps the oldest entries instead of the most recent ones
CleanedTransactionsKeepOldest(txs) ==
  IF Len(txs) > CleanupLimit THEN SubSeq(txs, 1, CleanupKeep) ELSE txs

CleanedTransactions(txs) ==
  IF Len(txs) > CleanupLimit
  THEN SubSeq(txs, Len(txs) - CleanupKeep + 1, Len(txs))
  ELSE txs

SeqToSet(s) == {s[i] : i \in 1 .. Len(s)}

\* the dedup history follows the set: a hash that left it counts from 0 again
SinceClearAfter(txs) ==
  [t \in TxIds |-> IF t \in SeqToSet(txs) THEN sinceClear[t] ELSE 0]

\* ------------------------------------------------------------- one tick of loop()
Config == env.config

\* What a step leaves behind: the closure, and what it did to
\* processingTransactions[userChainKey] ("same", "set" or "cleared").
Cont(loop, proc) == [loop |-> loop, proc |-> proc]

ProcessingAfter(key, proc) ==
  IF proc = "same" THEN processingTransactions
  ELSE [processingTransactions EXCEPT ![key] = (proc = "set")]

\* the end of the execution phase without the finally block
FinishExecutionKeepFlag(loop) == Cont(ScheduleNextLoop(loop, "executed"), "same")

\* the finally block and the last scheduleNextLoop() of loop()
FinishExecution(loop) == Cont(ScheduleNextLoop(loop, "executed"), "cleared")

\* an execution phase that gives up the rest of the plan after a transfer threw
NextTransferAbortOnFailure(loop, proc) ==
  IF loop.tick.idx < Len(loop.tick.tokensToSweep) /\ loop.tick.failed = <<>>
  THEN Cont([loop EXCEPT
              !.pc = "awaitToken", !.tick.idx = loop.tick.idx + 1,
              !.tick.attempted =
                 Append(@, loop.tick.tokensToSweep[loop.tick.idx + 1].contract)], proc)
  ELSE FinishExecution(loop)

\* after the native sweep, and after each token: the next token or the end
NextTransfer(loop, proc) ==
  IF loop.tick.idx < Len(loop.tick.tokensToSweep)
  THEN Cont([loop EXCEPT
              !.pc = "awaitToken", !.tick.idx = loop.tick.idx + 1,
              !.tick.attempted =
                 Append(@, loop.tick.tokensToSweep[loop.tick.idx + 1].contract)], proc)
  ELSE FinishExecution(loop)

\* lines 721-783: the native evaluation, the processing flag, the first transfer
BeginExecution(loop) ==
  LET t == loop.tick
      should == ShouldSweepNative(t.nativeBalance, t.gasReserve, t.effectiveGasPrice,
                                  t.allPrices, loop.key[2], Config)
      marked == [loop EXCEPT !.tick.shouldSweepNative = should,
                             !.tick.outcome = "executing"]
  IN IF should THEN Cont([marked EXCEPT !.pc = "awaitNative",
                                        !.tick.attempted = <<"native">>], "set")
     ELSE NextTransfer(marked, "set")

\* lines 665-719: the two dust checks, then the gas estimation when a token is kept
AfterEvaluation(loop) ==
  LET t == loop.tick
  IN IF IsDustForTokens(t.nativeBalance, Len(t.tokensToSweep), t.effectiveGasPrice)
     THEN Cont(ScheduleNextLoop(loop, "dustTokens"), "same")
     ELSE IF IsDustForNative(t.nativeBalance, t.effectiveGasPrice)
     THEN Cont(ScheduleNextLoop(loop, "dustNative"), "same")
     ELSE IF Len(t.tokensToSweep) > 0
     THEN Cont([loop EXCEPT !.pc = "awaitEstimate"], "same")
     ELSE BeginExecution(loop)

\* sweepNative(wallet, dest, chain, gasReserve): the value it sends, 0 when it
\* returns null before sending (balance 0, or balance <= totalGasNeeded)
SweepNativeTotalGas(gasPricing, gasReserve) ==
  LET nativeTransferCost ==
        BasicTransferGas * (IF gasPricing.type = 2 THEN gasPricing.maxFeePerGas
                            ELSE gasPricing.gasPrice)
      gasReserveCost ==
        IF gasReserve # 0 THEN gasReserve * EffectiveGasPrice(gasPricing) ELSE 0
  IN nativeTransferCost + gasReserveCost

\* a sweepNative that sends the balance less its own gas, the reserve forgotten
SweepNativeAmountNoReserve(balance, gasPricing, gasReserve) ==
  IF balance = 0 \/ balance <= SweepNativeTotalGas(gasPricing, 0) THEN 0
  ELSE balance - SweepNativeTotalGas(gasPricing, 0)

SweepNativeAmount(balance, gasPricing, gasReserve) ==
  IF balance = 0 \/ balance <= SweepNativeTotalGas(gasPricing, gasReserve) THEN 0
  ELSE balance - SweepNativeTotalGas(gasPricing, gasReserve)

\* What sweepToken / sweepNative return once the transfer is prepared: every
\* outcome after the send returns tx.hash (the catch around the confirmation
\* wait takes every rejection), a throw before or at the send is rethrown, and
\* "null" is sweepToken's zero balance
Submitted(outcome) == outcome \in {"confirmed", "failedReceipt", "timeout", "waitRejects"}

\* sweep functions that rethrow the timeout of the confirmation wait
SweepReturnTimeoutThrows(outcome, tx) ==
  IF outcome \in {"throws", "timeout"} THEN "throw"
  ELSE IF outcome = "null" THEN NoTx
  ELSE tx

SweepReturn(outcome, tx) ==
  IF outcome = "throws" THEN "throw"
  ELSE IF outcome = "null" THEN NoTx
  ELSE tx

\* how waitForTransactionWithTimeout ended for a transfer with this outcome
WaitOf(outcome) ==
  CASE outcome = "confirmed" -> "confirmed"
    [] outcome = "timeout" -> "timeout"
    [] outcome \in {"failedReceipt", "waitRejects"} -> "failed"
    [] OTHER -> "none"

\* if (txHash && !processedTransactions.has(txHash)) { add; notify(...) }
ShouldNotify(ret) ==
  /\ ret # NoTx
  /\ ret # "throw"
  /\ ret \notin SeqToSet(processedTransactions)

\* the shared effect of one sweep result on the dedup set and on notify
RecordSweep(ret) ==
  IF ShouldNotify(ret)
  THEN /\ processedTransactions' = Append(processedTransactions, ret)
       /\ notifyCount' = [notifyCount EXCEPT ![ret] = Min(@ + 1, 2)]
       /\ sinceClear' = [sinceClear EXCEPT ![ret] = Min(@ + 1, 2)]
  ELSE UNCHANGED <<processedTransactions, notifyCount, sinceClear>>

NotifiedAfter(notified, ret, transfer) ==
  IF ShouldNotify(ret) THEN Append(notified, transfer) ELSE notified

registryVars == <<userSweepers, userSweeperStates>>

\* a step of the closure l that leaves everything else of the engine alone
LoopStep(l, cont) ==
  /\ loops' = (loops (-) SetToBag({l}))
                (+) (IF cont.loop.pc = "returned" THEN EmptyBag
                     ELSE SetToBag({cont.loop}))
  /\ processingTransactions' = ProcessingAfter(l.key, cont.proc)
  /\ lastCall' = NoCall
  /\ UNCHANGED <<runningSweepers, registryVars, env, startedSinceStop, priceVars>>

\* loop() without its first line, the test of runningSweepers[userChainKey]
TimerFiresNoRunningCheck(l) ==
  /\ l.pc = "timer"
  /\ LET loop == l
         fresh == [loop EXCEPT !.tick = TickLocals]
     IN IF processingTransactions[loop.key] /\ ~loop.isFirstRun
        THEN LoopStep(l, Cont(ScheduleNextLoop(fresh, "skipped"), "same"))
        ELSE LoopStep(l, Cont([fresh EXCEPT !.pc = "awaitBalance"], "same"))
  /\ UNCHANGED <<processedTransactions, notifyCount, sinceClear>>

\* setTimeout fires: loop() from its top to its first await
TimerFires(l) ==
  /\ l.pc = "timer"
  /\ LET loop == l
         fresh == [loop EXCEPT !.tick = TickLocals]
     IN IF ~runningSweepers[loop.key]
        THEN LoopStep(l, Cont(Returned, "same"))
        ELSE IF processingTransactions[loop.key] /\ ~loop.isFirstRun
        THEN LoopStep(l, Cont(ScheduleNextLoop(fresh, "skipped"), "same"))
        ELSE LoopStep(l, Cont([fresh EXCEPT !.pc = "awaitBalance"], "same"))
  /\ UNCHANGED <<processedTransactions, notifyCount, sinceClear>>

\* loop() whose catch of the balance error returns without scheduleNextLoop()
BalanceResultNoReschedule(l) ==
  /\ l.pc = "awaitBalance"
  /\ \E ans \in env.balanceAnswers :
       IF ~ans.ok
       THEN LoopStep(l, Cont(Returned, "same"))
       ELSE LoopStep(l, Cont([l EXCEPT !.pc = "awaitGas",
                                              !.tick.nativeBalance = ans.value], "same"))
  /\ UNCHANGED <<processedTransactions, notifyCount, sinceClear>>

\* wallet.provider.getBalance answers or throws
BalanceResult(l) ==
  /\ l.pc = "awaitBalance"
  /\ \E ans \in env.balanceAnswers :
       IF ~ans.ok
       THEN LoopStep(l, Cont(ScheduleNextLoop(l, "balanceError"), "same"))
       ELSE LoopStep(l, Cont([l EXCEPT !.pc = "awaitGas",
                                              !.tick.nativeBalance = ans.value], "same"))
  /\ UNCHANGED <<processedTransactions, notifyCount, sinceClear>>

\* getOptimalGasPricing answers for the fee data the provider gave
GasResultWith(l, feeData) ==
  /\ l.pc = "awaitGas"
  /\ LoopStep(l, Cont([l EXCEPT
         !.pc = "awaitTokens",
         !.tick.effectiveGasPrice = EffectiveGasPrice(GetOptimalGasPricing(feeData))],
         "same"))
  /\ UNCHANGED <<processedTransactions, notifyCount, sinceClear>>

\* getOptimalGasPricing answers (it never throws)
GasResult(l) == \E feeData \in env.feeDatas : GasResultWith(l, feeData)

\* token.symbol.toLowerCase() of line 614 throws on a token without symbol
ListingThrows(ans) ==
  \/ ~ans.ok
  \/ \E i \in 1 .. Len(ans.tokens) : ans.tokens[i].symbol = "undef"

\* a loop() whose catch covers the listing alone: after a failed listing the
\* prices are still fetched, for the native symbol
TokensResultWithNativePriced(l, ans) ==
  /\ l.pc = "awaitTokens"
  /\ LoopStep(l, Cont([l EXCEPT !.pc = "awaitPrices",
                                !.tick.tokens = IF ListingThrows(ans) THEN <<>>
                                                ELSE ans.tokens], "same"))
  /\ UNCHANGED <<processedTransactions, notifyCount, sinceClear>>

\* getTokenBalances answers ans or throws, then the symbols are collected; the
\* outer catch leaves tokensToSweep and allPrices empty
TokensResultWith(l, ans) ==
  /\ l.pc = "awaitTokens"
  /\ IF ListingThrows(ans)
     THEN LoopStep(l, AfterEvaluation(l))
     ELSE LoopStep(l, Cont([l EXCEPT !.pc = "awaitPrices",
                                            !.tick.tokens = ans.tokens], "same"))
  /\ UNCHANGED <<processedTransactions, notifyCount, sinceClear>>

\* getTokenBalances answers or throws
TokensResult(l) == \E ans \in env.tokenAnswers : TokensResultWith(l, ans)

\* getBatchTokenPricesUSD answers (it catches): evaluation, sort, dust checks
PricesResult(l) ==
  /\ l.pc = "awaitPrices"
  /\ \E prices \in env.priceMaps :
       LoopStep(l, AfterEvaluation([l EXCEPT
         !.tick.allPrices = prices,
         !.tick.evaluated = TRUE,
         !.tick.tokensToSweep = TokensToSweep(l.tick.tokens, prices, Config)]))
  /\ UNCHANGED <<processedTransactions, notifyCount, sinceClear>>

\* estimateTokenGasCosts answers after the estimates ests, one per kept token
EstimateResultWith(l, ests) ==
  /\ l.pc = "awaitEstimate"
  /\ LoopStep(l, BeginExecution([l EXCEPT
         !.tick.gasReserve = EstimateTokenGasCosts(ests)]))
  /\ UNCHANGED <<processedTransactions, notifyCount, sinceClear>>

\* estimateTokenGasCosts answers with one estimate per kept token
EstimateResult(l) ==
  \E ests \in [1 .. Len(l.tick.tokensToSweep) -> env.estimates] :
    EstimateResultWith(l, ests)

\* sweepNative returns after it read the balance ans and the fee level feeData
\* and its transfer, if it sent one, had the outcome and the hash tx
NativeResultWith(l, ans, feeData, outcome, tx) ==
  /\ l.pc = "awaitNative"
  /\ LET loop == l
         gasPricing == GetOptimalGasPricing(feeData)
         amount == SweepNativeAmount(ans.value, gasPricing, loop.tick.gasReserve)
         sent == amount > 0 /\ Submitted(outcome)
         ret == IF amount = 0 THEN NoTx ELSE SweepReturn(outcome, tx)
         after == [loop EXCEPT
           !.tick.submitted = IF sent THEN Append(@, "native") ELSE @,
           !.tick.notified = NotifiedAfter(@, ret, "native"),
           !.tick.failed = IF ret = "throw" THEN Append(@, "native") ELSE @,
           !.tick.lastWait = IF amount = 0 THEN "none" ELSE WaitOf(outcome),
           !.tick.nativeTx = IF sent
                             THEN [balance |-> ans.value, value |-> amount,
                                   feePrice |-> EffectiveGasPrice(gasPricing)]
                             ELSE @]
     IN /\ LoopStep(l, NextTransfer(after, "same"))
        /\ RecordSweep(ret)

\* sweepNative returns: it read the balance and the fee level again
NativeResult(l) ==
  \E ans \in {a \in env.balanceAnswers : a.ok}, feeData \in env.feeDatas,
     outcome \in env.sendOutcomes, tx \in env.txIds :
    NativeResultWith(l, ans, feeData, outcome, tx)

\* sweepToken returns for tokensToSweep[idx]: "null" for a zero balance, else
\* the outcome of its transfer and the hash tx
TokenResultWith(l, outcome, tx) ==
  /\ l.pc = "awaitToken"
  /\ LET loop == l
         ret == SweepReturn(outcome, tx)
         token == loop.tick.tokensToSweep[loop.tick.idx]
         after == [loop EXCEPT
           !.tick.submitted = IF Submitted(outcome) THEN Append(@, token.contract)
                              ELSE @,
           !.tick.notified = NotifiedAfter(@, ret, token.contract),
           !.tick.failed = IF ret = "throw" THEN Append(@, token.contract) ELSE @,
           !.tick.lastWait = WaitOf(outcome)]
     IN /\ LoopStep(l, NextTransfer(after, "same"))
        /\ RecordSweep(ret)

\* sweepToken returns for tokensToSweep[idx]
TokenResult(l) ==
  \E outcome \in env.sendOutcomes \cup {"null"}, tx \in env.txIds :
    TokenResultWith(l, outcome, tx)

\* ------------------------------------------------------------- MultiUserSweeper
tickHistory == <<processedTransactions, notifyCount, sinceClear>>

Call(op, u, c, ret, count, notified) ==
  [op |-> op, user |-> u, chain |-> c, ret |-> ret, count |-> count,
   notified |-> notified]

AllFalse == [c \in ChainKeys |-> FALSE]

\* startSweeperForUser without its "already running" test on the user's state
StartSweeperForUserNoCheck(u, c) ==
  LET key == <<u, c>>
      res == StartSweeperResult(key)
  IN /\ StartSweeperEff(key)
     /\ IF res = "throws"
        THEN /\ userSweeperStates' = [userSweeperStates EXCEPT ![u].has = TRUE]
             /\ lastCall' = Call("start", u, c, "throws", 0, FALSE)
             /\ UNCHANGED <<userSweepers, startedSinceStop>>
        ELSE /\ userSweeperStates' =
                  [userSweeperStates EXCEPT ![u].has = TRUE, ![u].chains[c] = TRUE]
             /\ userSweepers' = userSweepers \cup {key}
             /\ lastCall' = Call("start", u, c, "true", 0, res = "started")
             /\ startedSinceStop' = [startedSinceStop EXCEPT ![key] = TRUE]
     /\ UNCHANGED <<env, tickHistory, priceVars>>

\* a startSweeperForUser that marks the chain active before it calls
\* startSweeper: a start that throws leaves the mark
StartSweeperForUserMarksFirst(u, c) ==
  LET key == <<u, c>>
      res == StartSweeperResult(key)
  IN IF userSweeperStates[u].chains[c]
     THEN /\ userSweeperStates' = [userSweeperStates EXCEPT ![u].has = TRUE]
          /\ lastCall' = Call("start", u, c, "false", 0, FALSE)
          /\ UNCHANGED <<runningSweepers, processingTransactions, loops,
                         userSweepers, env, tickHistory, startedSinceStop, priceVars>>
     ELSE /\ StartSweeperEff(key)
          /\ userSweeperStates' =
               [userSweeperStates EXCEPT ![u].has = TRUE, ![u].chains[c] = TRUE]
          /\ IF res = "throws"
             THEN /\ lastCall' = Call("start", u, c, "throws", 0, FALSE)
                  /\ UNCHANGED <<userSweepers, startedSinceStop>>
             ELSE /\ userSweepers' = userSweepers \cup {key}
                  /\ lastCall' = Call("start", u, c, "true", 0, res = "started")
                  /\ startedSinceStop' = [startedSinceStop EXCEPT ![key] = TRUE]
          /\ UNCHANGED <<env, tickHistory, priceVars>>

\* startSweeperForUser(userId, chainKey, config, mnemonic, destAddress, eventCallback)
StartSweeperForUser(u, c) ==
  LET key == <<u, c>>
      res == StartSweeperResult(key)
  IN IF userSweeperStates[u].chains[c]
     THEN /\ userSweeperStates' = [userSweeperStates EXCEPT ![u].has = TRUE]
          /\ lastCall' = Call("start", u, c, "false", 0, FALSE)
          /\ UNCHANGED <<runningSweepers, processingTransactions, loops,
                         userSweepers, env, tickHistory, startedSinceStop, priceVars>>
     ELSE /\ StartSweeperEff(key)
          /\ IF res = "throws"
             THEN /\ userSweeperStates' = [userSweeperStates EXCEPT ![u].has = TRUE]
                  /\ lastCall' = Call("start", u, c, "throws", 0, FALSE)
                  /\ UNCHANGED <<userSweepers, startedSinceStop>>
             ELSE /\ userSweeperStates' =
                       [userSweeperStates EXCEPT ![u].has = TRUE, ![u].chains[c] = TRUE]
                  /\ userSweepers' = userSweepers \cup {key}
                  /\ lastCall' = Call("start", u, c, "true", 0, res = "started")
                  /\ startedSinceStop' = [startedSinceStop EXCEPT ![key] = TRUE]
          /\ UNCHANGED <<env, tickHistory, priceVars>>

\* the keys stopAllSweepersForUser(userId) passes to stopSweeper
StoppedKeys(u) ==
  {<<u, c>> : c \in {d \in ChainKeys :
                       userSweeperStates[u].chains[d] /\ <<u, d>> \in userSweepers}}

StopAllSweepersForUser(u) ==
  /\ runningSweepers' = StopSweeperFlags(StoppedKeys(u), runningSweepers)
  /\ processingTransactions' = StopSweeperFlags(StoppedKeys(u), processingTransactions)
  /\ userSweepers' = userSweepers \ StoppedKeys(u)
  /\ userSweeperStates' = [userSweeperStates EXCEPT ![u] = [has |-> TRUE, chains |-> AllFalse]]
  /\ lastCall' = Call("stopUser", u, "", "", Cardinality(StoppedKeys(u)), FALSE)
  /\ startedSinceStop' = [k \in Keys |-> k[1] # u /\ startedSinceStop[k]]
  /\ UNCHANGED <<loops, env, tickHistory, priceVars>>

\* MultiUserSweeper.stopAllSweepers() and the stopAllSweepers() of sweeper.js
StopAllSweepers ==
  /\ runningSweepers' = StopSweeperFlags(Keys, runningSweepers)
  /\ processingTransactions' = StopSweeperFlags(Keys, processingTransactions)
  /\ processedTransactions' = <<>>
  /\ sinceClear' = SinceClearAfter(<<>>)
  /\ userSweepers' = {}
  /\ userSweeperStates' =
       [u \in Users |-> [has |-> userSweeperStates[u].has, chains |-> AllFalse]]
  /\ lastCall' = Call("stopAll", "", "", "", 0, FALSE)
  /\ startedSinceStop' = [k \in Keys |-> FALSE]
  /\ UNCHANGED <<loops, env, notifyCount, priceVars>>

\* a purge that deletes the state of the account before it stops its cycles:
\* stopAllSweepersForUser then finds an empty state and stops nothing
CleanupInactiveUsersDeleteFirst(inactive) ==
  LET purged == {u \in inactive : userSweeperStates[u].has}
  IN /\ userSweeperStates' =
          [u \in Users |-> IF u \in purged THEN [has |-> TRUE, chains |-> AllFalse]
                           ELSE userSweeperStates[u]]
     /\ lastCall' = Call("cleanupUsers", "", "", "", Cardinality(purged), FALSE)
     /\ UNCHANGED <<runningSweepers, processingTransactions, userSweepers,
                    startedSinceStop, loops, env, tickHistory, priceVars>>

\* cleanupInactiveUsers(): inactive are the users whose userData.lastActive is
\* more than 24 hours old
CleanupInactiveUsers(inactive) ==
  LET purged == {u \in inactive : userSweeperStates[u].has}
      stopped == UNION {StoppedKeys(u) : u \in purged}
  IN /\ runningSweepers' = StopSweeperFlags(stopped, runningSweepers)
     /\ processingTransactions' = StopSweeperFlags(stopped, processingTransactions)
     /\ userSweepers' = userSweepers \ stopped
     /\ userSweeperStates' =
          [u \in Users |-> IF u \in purged THEN [has |-> FALSE, chains |-> AllFalse]
                           ELSE userSweeperStates[u]]
     /\ lastCall' = Call("cleanupUsers", "", "", "", Cardinality(purged), FALSE)
     /\ startedSinceStop' = [k \in Keys |-> k[1] \notin purged /\ startedSinceStop[k]]
     /\ UNCHANGED <<loops, env, tickHistory, priceVars>>

\* getUserSweeperStatus(userId, chainKey) as a call: initUserState creates the
\* state object of an account that has none, then the status is returned
GetUserSweeperStatusCall(u, c) ==
  /\ userSweeperStates' = [userSweeperStates EXCEPT ![u].has = TRUE]
  /\ lastCall' = Call("status", u, c,
                      IF userSweeperStates[u].chains[c] THEN "true" ELSE "false",
                      0, FALSE)
  /\ UNCHANGED <<runningSweepers, processingTransactions, userSweepers,
                 startedSinceStop, loops, env, tickHistory, priceVars>>

\* getUserActiveSweepers(userId): initUserState, then the active chains (their
\* number is recorded)
GetUserActiveSweepersCall(u) ==
  /\ userSweeperStates' = [userSweeperStates EXCEPT ![u].has = TRUE]
  /\ lastCall' = Call("activeSweepers", u, "", "",
                      Cardinality({c \in ChainKeys : userSweeperStates[u].chains[c]}),
                      FALSE)
  /\ UNCHANGED <<runningSweepers, processingTransactions, userSweepers,
                 startedSinceStop, loops, env, tickHistory, priceVars>>

\* getGlobalStats().totalActiveSweepers: the isActive entries of every state
TotalActiveSweepers ==
  Cardinality({k \in Keys : userSweeperStates[k[1]].has
                              /\ userSweeperStates[k[1]].chains[k[2]]})

\* getGlobalStats().activeUsers: this.userSweeperStates.size
ActiveUsers == Cardinality({u \in Users : userSweeperStates[u].has})

\* setInterval(cleanupProcessedTransactions, 1 hour)
CleanupProcessedTransactions ==
  /\ processedTransactions' = CleanedTransactions(processedTransactions)
  /\ sinceClear' = SinceClearAfter(CleanedTransactions(processedTransactions))
  /\ lastCall' = NoCall
  /\ UNCHANGED <<runningSweepers, processingTransactions, loops, registryVars,
                 env, notifyCount, startedSinceStop, priceVars>>

\* ------------------------------------------------------------- PriceManager
MaxCallers == 2      \* callers of getPrice / getPrices
MaxTimers == 1       \* pending _processQueue timers

MAX_RETRIES == 3
BATCH_SIZE == 30
RETRY_DELAY == 5000   \* milliseconds

Callers == 1 .. MaxCallers
Origins == {0} \cup Callers        \* 0: the queue's batch; c: the getPrices call of c
NormSymbols == {"eth", "usdc"}
NoPrices == [sym \in {} |-> 0]

\* ages of a cache entry: 0 below CACHE_TTL, 1 exactly CACHE_TTL, 2 above it
NoEntry == [has |-> FALSE, price |-> 0, age |-> 0]
\* a _batchFetchPrices call: delay is the backoff it waits, or waited last
NoFetch == [symbols |-> <<>>, items |-> <<>>, retryCount |-> 0, pc |-> "none",
            delay |-> 0]
IdleCaller == [kind |-> "none", pc |-> "idle", raw |-> <<>>, symbols |-> <<>>,
               promiseOf |-> 0, cohort |-> {}, batches |-> 0, result |-> NoPrices,
               via |-> "none"]     \* how the call got its answer

\* constructor()
InitPriceManager ==
  /\ cache = [sym \in NormSymbols |-> NoEntry]
  /\ pendingRequests = [sym \in NormSymbols |-> 0]
  /\ requestQueue = <<>>
  /\ isProcessingQueue = FALSE
  /\ rateLimited = FALSE
  /\ queuePc = "idle"
  /\ queueTimers = 0
  /\ fetches = [o \in Origins |-> NoFetch]
  /\ callers = [c \in Callers |-> IdleCaller]

\* Date.now() - cached.timestamp < this.CACHE_TTL
IsFresh(entry) == entry.has /\ entry.age = 0

\* [...new Set(symbols.filter((s) => s).map((s) => s.toLowerCase()))]
\* (the non-empty symbols in lower case, each at its first occurrence)
NormalizeSymbols(symbols) ==
  LET lowered == [i \in 1 .. Len(symbols) |-> ToLowerCase(symbols[i])]
      IsFirst(i) == /\ symbols[i] # ""
                    /\ \A j \in 1 .. (i - 1) : lowered[j] # lowered[i]
      kept == SelectSeq([i \in 1 .. Len(symbols) |-> i], IsFirst)
  IN [k \in 1 .. Len(kept) |-> lowered[kept[k]]]

\* the fallback that only trusts entries younger than CACHE_TTL
GetCachedPricesFreshOnly(symbols) ==
  [sym \in {t \in SeqToSet(symbols) : IsFresh(cache[t])} |-> cache[sym].price]

\* _getCachedPricesForSymbols(symbols): whatever the cache holds, fresh or not
GetCachedPricesForSymbols(symbols) ==
  [sym \in {t \in SeqToSet(symbols) : cache[t].has} |-> cache[sym].price]

\* getPrice without its cache test: every call goes to the oracle path
GetPriceBranchNoCache(norm) ==
  IF pendingRequests[norm] # 0 THEN "join" ELSE "create"

\* getPrice with every caller sent to the queue, the pending promise ignored
GetPriceBranchNoJoin(norm) ==
  IF IsFresh(cache[norm]) THEN "cached" ELSE "create"

\* getPrice(symbol): the cache, then the pending promise, then a new request
GetPriceBranch(norm) ==
  IF IsFresh(cache[norm]) THEN "cached"
  ELSE IF pendingRequests[norm] # 0 THEN "join"
  ELSE "create"

\* the getPrice callers that still wait for the price of norm
Cohort(c, norm) ==
  {d \in Callers \ {c} : /\ callers[d].kind = "getPrice"
                         /\ callers[d].pc = "waiting"
                         /\ callers[d].symbols = <<norm>>}

\* requestQueue.splice(0, BATCH_SIZE) and the call of _batchFetchPrices up to
\* its fetch
TakeBatch(q) ==
  LET n == Min(Len(q), BATCH_SIZE)
  IN [requestQueue |-> SubSeq(q, n + 1, Len(q)),
      isProcessingQueue |-> TRUE,
      queuePc |-> "fetching",
      fetch |-> [symbols |-> [i \in 1 .. n |-> q[i].symbol],
                 items |-> [i \in 1 .. n |-> q[i].creator],
                 retryCount |-> 0, pc |-> "awaitFetch", delay |-> 0]]

\* a _processQueue without the isProcessingQueue test
ProcessQueueNoFlag(q) ==
  IF q = <<>>
  THEN [requestQueue |-> q, isProcessingQueue |-> isProcessingQueue,
        queuePc |-> queuePc, fetch |-> fetches[0]]
  ELSE IF rateLimited
  THEN [requestQueue |-> q, isProcessingQueue |-> TRUE,
        queuePc |-> "rateWait", fetch |-> fetches[0]]
  ELSE TakeBatch(q)

\* _processQueue() from its top to its first await, on the queue q
ProcessQueue(q) ==
  IF isProcessingQueue \/ q = <<>>
  THEN [requestQueue |-> q, isProcessingQueue |-> isProcessingQueue,
        queuePc |-> queuePc, fetch |-> fetches[0]]
  ELSE IF rateLimited
  THEN [requestQueue |-> q, isProcessingQueue |-> TRUE,
        queuePc |-> "rateWait", fetch |-> fetches[0]]
  ELSE TakeBatch(q)

\* the creators whose items the step r put into a batch fetch
StartedItems(r) ==
  IF r.queuePc = "fetching" /\ queuePc # "fetching" THEN SeqToSet(r.fetch.items) ELSE {}

\* every caller that awaits one of those promises has one more batch fetch
BatchesAfter(cs, r) ==
  [d \in Callers |->
     IF cs[d].kind = "getPrice" /\ cs[d].pc = "waiting"
        /\ cs[d].promiseOf \in StartedItems(r)
     THEN [cs[d] EXCEPT !.batches = Min(@ + 1, 2)]
     ELSE cs[d]]

ApplyQueue(r) ==
  /\ requestQueue' = r.requestQueue
  /\ isProcessingQueue' = r.isProcessingQueue
  /\ queuePc' = r.queuePc
  /\ fetches' = [fetches EXCEPT ![0] = r.fetch]

\* async getPrice(symbol), up to its first await or its return
GetPrice(c, s) ==
  LET norm == ToLowerCase(s)
      branch == IF s = "" THEN "empty" ELSE GetPriceBranch(norm)
      called == [kind |-> "getPrice", pc |-> "waiting", raw |-> <<s>>,
                 symbols |-> <<norm>>, promiseOf |-> 0, cohort |-> Cohort(c, norm),
                 batches |-> 0, result |-> NoPrices, via |-> "none"]
      others == [d \in Callers |-> [callers[d] EXCEPT !.cohort = @ \ {c}]]
      r == ProcessQueue(Append(requestQueue, [symbol |-> norm, creator |-> c]))
  IN /\ callers[c].pc # "waiting"
     /\ IF branch \in {"empty", "cached"}
        THEN /\ callers' = [others EXCEPT ![c] =
                  [called EXCEPT !.pc = "returned", !.cohort = {},
                                 !.result = IF branch = "empty" THEN NoPrices
                                            ELSE norm :> cache[norm].price]]
             /\ UNCHANGED <<pendingRequests, requestQueue, isProcessingQueue,
                            queuePc, fetches>>
        ELSE IF branch = "join"
        THEN /\ callers' = [others EXCEPT ![c] =
                  [called EXCEPT !.promiseOf = pendingRequests[norm],
                                 !.batches = callers[pendingRequests[norm]].batches]]
             /\ UNCHANGED <<pendingRequests, requestQueue, isProcessingQueue,
                            queuePc, fetches>>
        ELSE /\ callers' = BatchesAfter([others EXCEPT ![c] =
                                           [called EXCEPT !.promiseOf = c]], r)
             /\ pendingRequests' = [pendingRequests EXCEPT ![norm] = c]
             /\ ApplyQueue(r)
     /\ UNCHANGED <<cache, rateLimited, queueTimers, engineVars>>

\* async getPrices(symbols), up to its await of _batchFetchPrices or its return
GetPrices(c, symbols) ==
  LET norm == NormalizeSymbols(symbols)
      needsRefresh == SelectSeq(norm, LAMBDA sym : ~IsFresh(cache[sym]))
      results == [sym \in {t \in SeqToSet(norm) : IsFresh(cache[t])} |-> cache[sym].price]
      called == [kind |-> "getPrices", pc |-> "waiting", raw |-> symbols,
                 symbols |-> norm, promiseOf |-> 0, cohort |-> {},
                 batches |-> 0, result |-> results, via |-> "none"]
      others == [d \in Callers |-> [callers[d] EXCEPT !.cohort = @ \ {c}]]
  IN /\ callers[c].pc # "waiting"
     /\ IF needsRefresh = <<>>
        THEN /\ callers' = [others EXCEPT ![c] = [called EXCEPT !.pc = "returned"]]
             /\ UNCHANGED fetches
        ELSE /\ callers' = [others EXCEPT ![c] = called]
             /\ fetches' = [fetches EXCEPT ![c] =
                  [symbols |-> needsRefresh, items |-> <<>>,
                   retryCount |-> 0, pc |-> "awaitFetch", delay |-> 0]]
     /\ UNCHANGED <<cache, pendingRequests, requestQueue, isProcessingQueue,
                    rateLimited, queuePc, queueTimers, engineVars>>

\* item.resolve(prices[item.symbol]?.usd || 0) for the items of the batch: the
\* creator and the callers that joined its promise return
Resolved(cs, items, prices, via) ==
  [d \in Callers |->
     IF cs[d].kind = "getPrice" /\ cs[d].pc = "waiting"
        /\ cs[d].promiseOf \in SeqToSet(items)
     THEN [cs[d] EXCEPT !.pc = "returned", !.via = via,
                        !.result = cs[d].symbols[1] :> PriceOf(prices, cs[d].symbols[1])]
     ELSE cs[d]]

\* _batchFetchPrices of origin o returns prices: the rest of _processQueue and
\* of the getPrice calls it resolves, or the rest of getPrices
Complete(o, prices, via) ==
  IF o = 0
  THEN /\ callers' = Resolved(callers, fetches[0].items, prices, via)
       /\ pendingRequests' =
            [sym \in NormSymbols |->
               IF sym \in SeqToSet(fetches[0].symbols) THEN 0 ELSE pendingRequests[sym]]
       /\ rateLimited' = TRUE
       /\ isProcessingQueue' = FALSE
       /\ queuePc' = "idle"
       /\ IF requestQueue # <<>>
          THEN /\ queueTimers < MaxTimers
               /\ queueTimers' = queueTimers + 1
          ELSE UNCHANGED queueTimers
       /\ fetches' = [fetches EXCEPT ![0] = NoFetch]
       /\ UNCHANGED requestQueue
  ELSE /\ callers' = [callers EXCEPT ![o].pc = "returned", ![o].result = prices @@ @]
       /\ fetches' = [fetches EXCEPT ![o] = NoFetch]
       /\ UNCHANGED <<pendingRequests, rateLimited, isProcessingQueue, queuePc,
                      queueTimers, requestQueue>>

\* the JSON bodies the oracle may answer for symbols (0: no usd price)
OracleData(symbols) ==
  {data \in [SeqToSet(symbols) -> UNION {env.prices[sym] : sym \in SeqToSet(symbols)}] :
     \A sym \in SeqToSet(symbols) : data[sym] \in env.prices[sym]}

\* a refresh that drops the entry of a requested symbol the answer has no price for
FetchSucceedsDropsUnpriced(o) ==
  /\ fetches[o].pc = "awaitFetch"
  /\ "ok" \in env.oracle
  /\ \E data \in OracleData(fetches[o].symbols) :
       /\ cache' = [sym \in DOMAIN cache |->
                      IF sym \in DOMAIN data
                      THEN IF data[sym] # 0
                           THEN [has |-> TRUE, price |-> data[sym], age |-> 0]
                           ELSE NoEntry
                      ELSE cache[sym]]
       /\ Complete(o, data, "none")
  /\ UNCHANGED engineVars

\* the oracle answers 200 with data: priced symbols are cached, data is returned
FetchSucceeds(o) ==
  /\ fetches[o].pc = "awaitFetch"
  /\ "ok" \in env.oracle
  /\ \E data \in OracleData(fetches[o].symbols) :
       /\ cache' = [sym \in DOMAIN cache |->
                      IF sym \in DOMAIN data /\ data[sym] # 0
                      THEN [has |-> TRUE, price |-> data[sym], age |-> 0]
                      ELSE cache[sym]]
       /\ Complete(o, data, "none")
  /\ UNCHANGED engineVars

\* a 429 handled like any other failed response: thrown, and retried after a delay
FetchRateLimitedRetries(o) ==
  /\ fetches[o].pc = "awaitFetch"
  /\ "429" \in env.oracle
  /\ IF fetches[o].retryCount < MAX_RETRIES
     THEN /\ fetches' = [fetches EXCEPT ![o].pc = "awaitDelay",
                                        ![o].delay = RETRY_DELAY * 2 ^ fetches[o].retryCount]
          /\ UNCHANGED <<callers, pendingRequests, rateLimited, isProcessingQueue,
                         queuePc, queueTimers, requestQueue>>
     ELSE Complete(o, GetCachedPricesForSymbols(fetches[o].symbols), "fallback")
  /\ UNCHANGED <<cache, engineVars>>

\* the oracle answers 429: the cached prices are returned at once
FetchRateLimited(o) ==
  /\ fetches[o].pc = "awaitFetch"
  /\ "429" \in env.oracle
  /\ Complete(o, GetCachedPricesForSymbols(fetches[o].symbols), "fallback")
  /\ UNCHANGED <<cache, engineVars>>

\* a backoff that waits RETRY_DELAY before every retry
RetryDelayFixed(retryCount) == RETRY_DELAY

\* const delay = this.RETRY_DELAY * Math.pow(2, retryCount)
RetryDelay(retryCount) == RETRY_DELAY * 2 ^ retryCount

\* fetch rejects or the status is not ok: a retry after a delay while
\* retryCount < MAX_RETRIES, else the cached prices
FetchFails(o) ==
  /\ fetches[o].pc = "awaitFetch"
  /\ "fails" \in env.oracle
  /\ IF fetches[o].retryCount < MAX_RETRIES
     THEN /\ fetches' = [fetches EXCEPT ![o].pc = "awaitDelay",
                                        ![o].delay = RetryDelay(fetches[o].retryCount)]
          /\ UNCHANGED <<callers, pendingRequests, rateLimited, isProcessingQueue,
                         queuePc, queueTimers, requestQueue>>
     ELSE Complete(o, GetCachedPricesForSymbols(fetches[o].symbols), "fallback")
  /\ UNCHANGED <<cache, engineVars>>

\* the backoff delay is over: _batchFetchPrices(symbols, retryCount + 1)
RetryDelayDone(o) ==
  /\ fetches[o].pc = "awaitDelay"
  /\ fetches' = [fetches EXCEPT ![o].pc = "awaitFetch",
                                ![o].retryCount = fetches[o].retryCount + 1]
  /\ UNCHANGED <<cache, pendingRequests, requestQueue, isProcessingQueue, rateLimited,
                 queuePc, queueTimers, callers, engineVars>>

\* the rate-limit wait of _processQueue is over: the batch is taken and fetched
RateWaitDone ==
  /\ queuePc = "rateWait"
  /\ ApplyQueue(TakeBatch(requestQueue))
  /\ callers' = BatchesAfter(callers, TakeBatch(requestQueue))
  /\ UNCHANGED <<cache, pendingRequests, rateLimited, queueTimers,
                 engineVars>>

\* setTimeout(() => this._processQueue(), RATE_LIMIT_DELAY) fires
QueueTimerFires ==
  /\ queueTimers > 0
  /\ queueTimers' = queueTimers - 1
  /\ ApplyQueue(ProcessQueue(requestQueue))
  /\ callers' = BatchesAfter(callers, ProcessQueue(requestQueue))
  /\ UNCHANGED <<cache, pendingRequests, rateLimited, engineVars>>

\* RATE_LIMIT_DELAY has passed since lastRequestTime
RateLimitElapses ==
  /\ rateLimited
  /\ rateLimited' = FALSE
  /\ UNCHANGED <<cache, pendingRequests, requestQueue, isProcessingQueue, queuePc,
                 queueTimers, fetches, callers, engineVars>>

\* time passes: the entry of sym reaches CACHE_TTL, then exceeds it
CacheAges(sym) ==
  /\ cache[sym].has
  /\ cache[sym].age < 2
  /\ cache' = [cache EXCEPT ![sym].age = @ + 1]
  /\ UNCHANGED <<pendingRequests, requestQueue, isProcessingQueue, rateLimited, queuePc,
                 queueTimers, fetches, callers, engineVars>>

\* clearExpiredCache(): now - data.timestamp > CACHE_TTL
ClearExpiredCache ==
  /\ cache' = [sym \in DOMAIN cache |->
                 IF cache[sym].has /\ cache[sym].age = 2 THEN NoEntry ELSE cache[sym]]
  /\ UNCHANGED <<pendingRequests, requestQueue, isProcessingQueue, rateLimited, queuePc,
                 queueTimers, fetches, callers, engineVars>>

\* ------------------------------------------------------------- environments
Token(contract, symbol, balance, decimals) ==
  [contract |-> contract, symbol |-> symbol, balance |-> balance, decimals |-> decimals]

Usdc50 == Token("0xA", "USDC", 5000, 2)     \* 50.00 USDC
Dai5 == Token("0xB", "DAI", 50, 1)          \* 5.0 DAI
Link2 == Token("0xC", "LINK", 20, 1)        \* 2.0 LINK
Usdc499 == Token("0xA", "USDC", 499, 2)     \* 4.99 USDC
NoSymbol == Token("0xD", "undef", 100, 1)   \* metadata without symbol

Balance(v) == [ok |-> TRUE, value |-> v]
BalanceFails == [ok |-> FALSE, value |-> 0]
Listing(tokens) == [ok |-> TRUE, tokens |-> tokens]
ListingFails == [ok |-> FALSE, tokens |-> <<>>]
LegacyFee(gasPrice) ==
  [ok |-> TRUE, maxFeePerGas |-> 0, maxPriorityFeePerGas |-> 0, gasPrice |-> gasPrice]
DualFee(maxFee, priorityFee) ==
  [ok |-> TRUE, maxFeePerGas |-> maxFee, maxPriorityFeePerGas |-> priorityFee,
   gasPrice |-> 0]
FeeDataFails ==
  [ok |-> FALSE, maxFeePerGas |-> 0, maxPriorityFeePerGas |-> 0, gasPrice |-> 0]
Estimate(gas) == [ok |-> TRUE, gas |-> gas]
EstimateFails == [ok |-> FALSE, gas |-> 0]

\* The engine's environment: one funded wallet whose answers are fixed (a
\* transfer may still throw), so that what varies is the interleaving of the
\* calls with the ticks of the closures.
EngineEnv ==
  [config |-> [usdThreshold |-> 5, nativeUsdThreshold |-> 10],
   balanceAnswers |-> {Balance(10063000)},
   feeDatas |-> {LegacyFee(2)},
   tokenAnswers |-> {Listing(<<Usdc50>>)},
   priceMaps |-> {("eth" :> 1200) @@ ("usdc" :> 1)},
   estimates |-> {Estimate(50000)},
   sendOutcomes |-> {"confirmed", "throws"},
   txIds |-> {"0xa"},
   users |-> {"u1"},
   chains |-> {"ethereum", "doge"}]

\* The environment of one wallet's ticks. With the legacy fee 2 (and the
\* EIP-1559 fee 2/1) the effective gas price is 3: a native transfer costs
\* 63000, a token transfer 234000. At 2000 per ether the native threshold 10
\* is 5000000 of sweepable amount; one token estimated at 50000 gas reserves
\* 60000 gas, 180000 at price 3.
AllPrices == ("eth" :> 2000) @@ ("usdc" :> 1) @@ ("dai" :> 1) @@ ("link" :> 10)
MixedPrices == ("eth" :> 2000) @@ ("usdc" :> 1) @@ ("dai" :> 1) @@ ("link" :> 2)
StalePrices == ("eth" :> 2000) @@ ("usdc" :> 1) @@ ("link" :> 0)
NoNativePrice == ("eth" :> 0) @@ ("usdc" :> 1) @@ ("link" :> 0)

\* the one wallet of the tick specifications
TickUsers == {"u1"}
TickChains == {"ethereum"}

TickEnv(config) ==
  [config |-> config,
   balanceAnswers |-> {BalanceFails, Balance(62999), Balance(200000),
                       Balance(5063000), Balance(5243000), Balance(5603000)},
   feeDatas |-> {LegacyFee(2), DualFee(2, 1), FeeDataFails},
   tokenAnswers |-> {ListingFails, Listing(<<>>), Listing(<<Usdc499>>),
                     Listing(<<Usdc50, Dai5, Link2>>), Listing(<<NoSymbol, Usdc50>>)},
   priceMaps |-> {AllPrices, MixedPrices, StalePrices, NoNativePrice, NoPrices},
   estimates |-> {Estimate(50000), EstimateFails},
   sendOutcomes |-> {"confirmed", "failedReceipt", "timeout", "waitRejects", "throws"},
   txIds |-> {"0xa", "0xb"},
   users |-> TickUsers,
   chains |-> TickChains]

\* the configurations of the callers: both thresholds set, or only usdThreshold
TickEnvs == {TickEnv([usdThreshold |-> 5, nativeUsdThreshold |-> 10]),
             TickEnv([usdThreshold |-> 1, nativeUsdThreshold |-> 0])}

InitEngine ==
  /\ runningSweepers = [k \in Keys |-> FALSE]
  /\ processingTransactions = [k \in Keys |-> FALSE]
  /\ processedTransactions = <<>>
  /\ loops = EmptyBag
  /\ userSweepers = {}
  /\ userSweeperStates = [u \in Users |-> [has |-> FALSE, chains |-> AllFalse]]
  /\ lastCall = NoCall
  /\ notifyCount = [t \in TxIds |-> 0]
  /\ sinceClear = [t \in TxIds |-> 0]
  /\ startedSinceStop = [k \in Keys |-> FALSE]

Init ==
  /\ InitEngine
  /\ InitPriceManager
  /\ env = EngineEnv

Next ==
  \/ \E u \in env.users, c \in env.chains : StartSweeperForUser(u, c)
  \/ \E u \in env.users : StopAllSweepersForUser(u)
  \/ StopAllSweepers
  \/ \E inactive \in SUBSET env.users : CleanupInactiveUsers(inactive)
  \/ CleanupProcessedTransactions
  \/ \E l \in Live : TimerFires(l)
  \/ \E l \in Live : BalanceResult(l)
  \/ \E l \in Live : GasResult(l)
  \/ \E l \in Live : TokensResult(l)
  \/ \E l \in Live : PricesResult(l)
  \/ \E l \in Live : EstimateResult(l)
  \/ \E l \in Live : NativeResult(l)
  \/ \E l \in Live : TokenResult(l)

vars == <<engineVars, priceVars>>

Spec == Init /\ [][Next]_vars

\* One wallet that is started once and never stopped: what its ticks decide
\* and do, over every answer of TickEnv.
InitTick ==
  /\ InitEngine
  /\ InitPriceManager
  /\ env \in TickEnvs

NextTick ==
  \/ \E u \in env.users, c \in env.chains : StartSweeperForUser(u, c)
  \/ \E l \in Live : TimerFires(l)
  \/ \E l \in Live : BalanceResult(l)
  \/ \E l \in Live : GasResult(l)
  \/ \E l \in Live : TokensResult(l)
  \/ \E l \in Live : PricesResult(l)
  \/ \E l \in Live : EstimateResult(l)
  \/ \E l \in Live : NativeResult(l)
  \/ \E l \in Live : TokenResult(l)

SpecTick == InitTick /\ [][NextTick]_vars

\* The same wallet when every await settles (each call answers or rejects, the
\* confirmation wait has its timeout) and every armed timer fires.
TickFairness ==
  /\ WF_vars(\E l \in Live : TimerFires(l))
  /\ WF_vars(\E l \in Live : BalanceResult(l))
  /\ WF_vars(\E l \in Live : GasResult(l))
  /\ WF_vars(\E l \in Live : TokensResult(l))
  /\ WF_vars(\E l \in Live : PricesResult(l))
  /\ WF_vars(\E l \in Live : EstimateResult(l))
  /\ WF_vars(\E l \in Live : NativeResult(l))
  /\ WF_vars(\E l \in Live : TokenResult(l))

SpecTickFair == InitTick /\ [][NextTick]_vars /\ TickFairness

\* The ticks of one wallet that holds three tokens above the threshold, over
\* the fee data a provider may give (the answer is fixed per behaviour): cap
\* and tip, the tip above the cap included, a gas price, a field missing, or
\* an error; a gas estimation answers 50003 or fails.
FeeDatas ==
  {DualFee(cap, tip) : cap \in 1 .. 5, tip \in 1 .. 6}
    \cup {LegacyFee(gasPrice) : gasPrice \in 0 .. 5}
    \cup {DualFee(3, 0), DualFee(0, 2), FeeDataFails}

GasEnv(feeData) ==
  [config |-> [usdThreshold |-> 5, nativeUsdThreshold |-> 10],
   balanceAnswers |-> {Balance(9000000)},
   feeDatas |-> {feeData},
   tokenAnswers |-> {Listing(<<Usdc50, Dai5, Link2>>)},
   priceMaps |-> {AllPrices},
   estimates |-> {Estimate(50003), EstimateFails},
   sendOutcomes |-> {"confirmed"},
   txIds |-> {"0xa"},
   users |-> TickUsers,
   chains |-> TickChains]

InitGas ==
  /\ InitEngine
  /\ InitPriceManager
  /\ env \in {GasEnv(feeData) : feeData \in FeeDatas}

SpecGas == InitGas /\ [][NextTick]_vars

\* The registry with two accounts on two chains and on one chain that
\* getWalletFromMnemonic rejects, the wallets' provider being down (every
\* balance read fails): what varies is the order of the start, stop, purge and
\* query calls and of the ticks they overlap with.
RegistryEnv ==
  [config |-> [usdThreshold |-> 5, nativeUsdThreshold |-> 10],
   balanceAnswers |-> {BalanceFails},
   feeDatas |-> {LegacyFee(2)},
   tokenAnswers |-> {Listing(<<>>)},
   priceMaps |-> {AllPrices},
   estimates |-> {Estimate(50000)},
   sendOutcomes |-> {"confirmed"},
   txIds |-> {"0xa"},
   users |-> {"u1", "u2"},
   chains |-> {"ethereum", "polygon", "doge"}]

InitRegistry ==
  /\ InitEngine
  /\ InitPriceManager
  /\ env = RegistryEnv

NextRegistry ==
  \/ \E u \in env.users, c \in env.chains : StartSweeperForUser(u, c)
  \/ \E u \in env.users : StopAllSweepersForUser(u)
  \/ StopAllSweepers
  \/ \E inactive \in SUBSET env.users : CleanupInactiveUsers(inactive)
  \/ \E u \in env.users, c \in env.chains : GetUserSweeperStatusCall(u, c)
  \/ \E u \in env.users : GetUserActiveSweepersCall(u)
  \/ \E l \in Live : TimerFires(l)
  \/ \E l \in Live : BalanceResult(l)

SpecRegistry == InitRegistry /\ [][NextRegistry]_vars

\* The ticks of one wallet that holds no token, one token or three tokens above
\* the threshold, at the effective gas price 3 (a native transfer costs 63000, a
\* token transfer 234000), over native balances around what one transfer and
\* what three transfers cost.
BudgetEnv ==
  [config |-> [usdThreshold |-> 5, nativeUsdThreshold |-> 10],
   balanceAnswers |-> {Balance(296999), Balance(297000), Balance(300000),
                       Balance(764999), Balance(765000), Balance(5603000)},
   feeDatas |-> {LegacyFee(2)},
   tokenAnswers |-> {Listing(<<>>), Listing(<<Usdc50>>),
                     Listing(<<Usdc50, Dai5, Link2>>)},
   priceMaps |-> {AllPrices},
   estimates |-> {Estimate(50000)},
   sendOutcomes |-> {"confirmed", "throws"},
   txIds |-> {"0xa"},
   users |-> TickUsers,
   chains |-> TickChains]

InitBudget ==
  /\ InitEngine
  /\ InitPriceManager
  /\ env = BudgetEnv

SpecBudget == InitBudget /\ [][NextTick]_vars

\* The ticks of one wallet that holds no token or one token (60000 gas
\* reserved), when sweepNative reads a balance and a fee level of its own: at
\* the price 3 the native transfer and the reserve cost 243000, at the price 6
\* 486000, at the price 150 more than any balance.
NativeEnv ==
  [config |-> [usdThreshold |-> 5, nativeUsdThreshold |-> 10],
   balanceAnswers |-> {Balance(0), Balance(243000), Balance(243001),
                       Balance(5243000), Balance(5603000)},
   feeDatas |-> {LegacyFee(2), DualFee(4, 1), FeeDataFails},
   tokenAnswers |-> {Listing(<<>>), Listing(<<Usdc50>>)},
   priceMaps |-> {AllPrices},
   estimates |-> {Estimate(50000)},
   sendOutcomes |-> {"confirmed", "timeout", "throws"},
   txIds |-> {"0xa"},
   users |-> TickUsers,
   chains |-> TickChains]

InitNative ==
  /\ InitEngine
  /\ InitPriceManager
  /\ env = NativeEnv

SpecNative == InitNative /\ [][NextTick]_vars

\* One wallet whose sweeps are recorded in a set that already holds the hashes
\* of n earlier sweeps, "1" the oldest and "n" the most recent, with the hourly
\* cleanup running at any moment.
RecordedBefore(n) == [i \in 1 .. n |-> ToString(i)]
SizesBefore == {0, 999, 1000, 1001, 1500}

CleanupEnv ==
  [config |-> [usdThreshold |-> 5, nativeUsdThreshold |-> 10],
   balanceAnswers |-> {Balance(10063000)},
   feeDatas |-> {LegacyFee(2)},
   tokenAnswers |-> {Listing(<<Usdc50>>)},
   priceMaps |-> {("eth" :> 1200) @@ ("usdc" :> 1)},
   estimates |-> {Estimate(50000)},
   sendOutcomes |-> {"confirmed"},
   txIds |-> {"0xa", "0xb"},
   users |-> TickUsers,
   chains |-> TickChains]

InitCleanup ==
  /\ runningSweepers = [k \in Keys |-> FALSE]
  /\ processingTransactions = [k \in Keys |-> FALSE]
  /\ processedTransactions \in {RecordedBefore(n) : n \in SizesBefore}
  /\ loops = EmptyBag
  /\ userSweepers = {}
  /\ userSweeperStates = [u \in Users |-> [has |-> FALSE, chains |-> AllFalse]]
  /\ lastCall = NoCall
  /\ notifyCount = [t \in TxIds |-> 0]
  /\ sinceClear = [t \in TxIds |-> 0]
  /\ startedSinceStop = [k \in Keys |-> FALSE]
  /\ InitPriceManager
  /\ env = CleanupEnv

NextCleanup ==
  \/ \E u \in env.users, c \in env.chains : StartSweeperForUser(u, c)
  \/ CleanupProcessedTransactions
  \/ \E l \in Live : TimerFires(l)
  \/ \E l \in Live : BalanceResult(l)
  \/ \E l \in Live : GasResult(l)
  \/ \E l \in Live : TokensResult(l)
  \/ \E l \in Live : PricesResult(l)
  \/ \E l \in Live : EstimateResult(l)
  \/ \E l \in Live : NativeResult(l)
  \/ \E l \in Live : TokenResult(l)

SpecCleanup == InitCleanup /\ [][NextCleanup]_vars

\* The PriceManager on its own: callers of getPrice and getPrices, the oracle's
\* answers and the passing of time.
PriceEnv ==
  [prices |-> ("eth" :> {0, 2000, 2100}) @@ ("usdc" :> {1}),
   oracle |-> {"ok", "429", "fails"},
   getPriceInputs |-> {"ETH", "eth", "USDC"},
   getPricesInputs |-> {<<"ETH", "usdc", "eth">>, <<"eth">>}]

InitPrice ==
  /\ InitEngine
  /\ InitPriceManager
  /\ env = PriceEnv

NextPrice ==
  \/ \E c \in Callers, s \in env.getPriceInputs : GetPrice(c, s)
  \/ \E c \in Callers, symbols \in env.getPricesInputs : GetPrices(c, symbols)
  \/ \E o \in Origins : FetchSucceeds(o)
  \/ \E o \in Origins : FetchRateLimited(o)
  \/ \E o \in Origins : FetchFails(o)
  \/ \E o \in Origins : RetryDelayDone(o)
  \/ RateWaitDone
  \/ QueueTimerFires
  \/ RateLimitElapses
  \/ \E sym \in NormSymbols : CacheAges(sym)
  \/ ClearExpiredCache

SpecPrice == InitPrice /\ [][NextPrice]_vars

\* The PriceManager under an oracle that answers and fails, or answers and rate
\* limits: the ways it may answer are fixed per behaviour.
OracleEnv(oracle) ==
  [prices |-> ("eth" :> {0, 2000}) @@ ("usdc" :> {1}),
   oracle |-> oracle,
   getPriceInputs |-> {"ETH", "USDC"},
   getPricesInputs |-> {<<"ETH", "usdc", "eth">>}]

OracleEnvs == {OracleEnv({"ok", "fails"}), OracleEnv({"ok", "429"})}

InitOracle ==
  /\ InitEngine
  /\ InitPriceManager
  /\ env \in OracleEnvs

SpecOracle == InitOracle /\ [][NextPrice]_vars

\* The request queue alone: callers of getPrice, the oracle's answers to the
\* queue's batch, the timers and the waits.
QueueEnv ==
  [prices |-> ("eth" :> {0, 2000}) @@ ("usdc" :> {1}),
   oracle |-> {"ok", "429", "fails"},
   getPriceInputs |-> {"ETH", "USDC"},
   getPricesInputs |-> {}]

InitQueue ==
  /\ InitEngine
  /\ InitPriceManager
  /\ env = QueueEnv

NextQueue ==
  \/ \E c \in Callers, s \in env.getPriceInputs : GetPrice(c, s)
  \/ FetchSucceeds(0)
  \/ FetchRateLimited(0)
  \/ FetchFails(0)
  \/ RetryDelayDone(0)
  \/ RateWaitDone
  \/ QueueTimerFires
  \/ RateLimitElapses
  \/ \E sym \in NormSymbols : CacheAges(sym)

\* every oracle call completes (it answers, is rate limited or fails), and
\* every setTimeout of the queue fires
QueueFairness ==
  /\ WF_vars(FetchSucceeds(0) \/ FetchRateLimited(0) \/ FetchFails(0))
  /\ WF_vars(RetryDelayDone(0))
  /\ WF_vars(RateWaitDone)
  /\ WF_vars(QueueTimerFires)

SpecQueue == InitQueue /\ [][NextQueue]_vars /\ QueueFairness

\* The PriceManager asked, within one CACHE_TTL, for the prices of a wallet that
\* holds BATCH_SIZE + 1 tokens the oracle does not list.
ManySymbols ==
  <<"t01", "t02", "t03", "t04", "t05", "t06", "t07", "t08", "t09", "t10",
    "t11", "t12", "t13", "t14", "t15", "t16", "t17", "t18", "t19", "t20",
    "t21", "t22", "t23", "t24", "t25", "t26", "t27", "t28", "t29", "t30",
    "t31">>

BatchEnv ==
  [prices |-> ("eth" :> {2000}) @@ ("usdc" :> {1})
                @@ [sym \in SeqToSet(ManySymbols) |-> {0}],
   oracle |-> {"ok", "429", "fails"},
   getPriceInputs |-> {"ETH", "USDC"},
   getPricesInputs |-> {ManySymbols, <<"ETH", "usdc", "eth">>}]

InitBatch ==
  /\ InitEngine
  /\ cache = [sym \in NormSymbols \cup SeqToSet(ManySymbols) |-> NoEntry]
  /\ pendingRequests = [sym \in NormSymbols |-> 0]
  /\ requestQueue = <<>>
  /\ isProcessingQueue = FALSE
  /\ rateLimited = FALSE
  /\ queuePc = "idle"
  /\ queueTimers = 0
  /\ fetches = [o \in Origins |-> NoFetch]
  /\ callers = [c \in Callers |-> IdleCaller]
  /\ env = BatchEnv

NextBatch ==
  \/ \E c \in Callers, s \in env.getPriceInputs : GetPrice(c, s)
  \/ \E c \in Callers, symbols \in env.getPricesInputs : GetPrices(c, symbols)
  \/ \E o \in Origins : FetchSucceeds(o)
  \/ \E o \in Origins : FetchRateLimited(o)
  \/ \E o \in Origins : FetchFails(o)
  \/ \E o \in Origins : RetryDelayDone(o)
  \/ RateWaitDone
  \/ QueueTimerFires
  \/ RateLimitElapses

SpecBatch == InitBatch /\ [][NextBatch]_vars

\* ------------------------------------------------------------- claims: the engine
\* A closure counts as a live polling loop while a tick of it is in progress, or
\* while its timer is pending and will run a tick body (the key is running).
LivePollingLoops(key) ==
  LET ofKey == {lp \in Live : /\ lp.key = key
                             /\ \/ lp.pc \in TickPcs
                                \/ lp.pc = "timer" /\ runningSweepers[key]}
  IN BagCardinality([lp \in ofKey |-> loops[lp]])

\* C1: every key has at most one live polling loop, whatever the interleaving of
\* start, stop, stopAll and timer firings.
C1_AtMostOneLoopPerKey == \A k \in Keys : LivePollingLoops(k) <= 1

\* C2: a start call for a key for which a start already returned true, with no
\* stop of that key since, returns false, creates no closure, sends no start
\* notification and leaves the running flag alone; a start call that returns
\* true leaves the key with the one closure it created.
C2_SecondStartIsNoOp ==
  [][\A u \in Users, c \in ChainKeys :
       StartSweeperForUser(u, c) =>
         IF startedSinceStop[<<u, c>>]
         THEN /\ lastCall'.ret = "false"
              /\ ~lastCall'.notified
              /\ loops' = loops
              /\ runningSweepers' = runningSweepers
         ELSE lastCall'.ret = "true" =>
                /\ lastCall'.notified
                /\ BagCardinality(loops') = BagCardinality(loops) + 1
                /\ runningSweepers'[<<u, c>>]]_vars

\* C2 witness: a second start has returned false while the first closure ticks
C2_Witness ==
  /\ lastCall.op = "start"
  /\ lastCall.ret = "false"
  /\ startedSinceStop[<<lastCall.user, lastCall.chain>>]
  /\ LivePollingLoops(<<lastCall.user, lastCall.chain>>) = 1

\* the closures of a key that are inside their transfer-execution phase
ExecutingLoops(key) ==
  LET ofKey == {lp \in Live : lp.key = key /\ lp.pc \in ExecPcs}
  IN BagCardinality([lp \in ofKey |-> loops[lp]])

\* C3: no key ever has two transfer-execution phases in flight at once.
C3_NoConcurrentExecution == \A k \in Keys : ExecutingLoops(k) <= 1

\* C4: over the whole run notify is invoked at most once for every transaction
\* hash.
C4_NotifiedAtMostOnceEver == \A t \in TxIds : notifyCount[t] <= 1

\* What the set does guarantee: notify is invoked at most once for a hash for as
\* long as the hash stays in processedTransactions, and a hash is in the set
\* exactly when it was notified since it last left the set.
NotifiedOnceWhileRecorded ==
  \A t \in TxIds :
    /\ sinceClear[t] <= 1
    /\ (t \in SeqToSet(processedTransactions)) = (sinceClear[t] = 1)

\* ------------------------------------------------------------- claims: one tick
\* what the claims call feePrice, nativeTransferCost and tokenTransferCost
NativeTransferCostOf(lp) == BasicTransferGas * lp.tick.effectiveGasPrice
TokenTransferCostOf(lp) == TokenTransferGas * lp.tick.effectiveGasPrice

\* C5: a tick that keeps at least one token while nativeBalance is below
\* nativeTransferCost + tokenTransferCost submits no transfer, sends no
\* notification, never enters the execution phase and ends with its timer armed.
C5_DustSuppression ==
  \A lp \in Live :
    (/\ Len(lp.tick.tokensToSweep) > 0
     /\ lp.tick.nativeBalance < NativeTransferCostOf(lp) + TokenTransferCostOf(lp))
    => /\ lp.pc = "timer"
       /\ lp.tick.outcome = "dustTokens"
       /\ lp.tick.submitted = <<>>
       /\ lp.tick.notified = <<>>
       /\ ~processingTransactions[lp.key]

\* C5 witness: the tick with one kept token and nativeBalance = nativeTransferCost - 1
C5_Witness ==
  \E lp \in Live :
    /\ Len(lp.tick.tokensToSweep) = 1
    /\ lp.tick.nativeBalance = NativeTransferCostOf(lp) - 1
    /\ lp.pc = "timer"
    /\ lp.tick.outcome = "dustTokens"

\* the tick has evaluated the native sweep (lines 721-776)
NativeEvaluated(lp) == lp.tick.outcome \in {"executing", "executed"}

\* nativeBalance - 21000 * feePrice - tokenGasReserve * feePrice
SweepableNative(lp) ==
  lp.tick.nativeBalance - BasicTransferGas * lp.tick.effectiveGasPrice
    - lp.tick.gasReserve * lp.tick.effectiveGasPrice

\* that amount is positive and its USD value reaches the native threshold
NativeClears(lp) ==
  /\ SweepableNative(lp) > 0
  /\ NativeValueMeets(SweepableNative(lp),
                      PriceOf(lp.tick.allPrices, "eth"),
                      NativeUsdThreshold(env.config))

\* what C6 states of the amount and of the submission
NativeReserveRule(lp) ==
  /\ NativeEvaluated(lp) =>
       /\ Len(lp.tick.tokensToSweep) = 0 => lp.tick.gasReserve = 0
       /\ lp.tick.shouldSweepNative => NativeClears(lp)
  /\ "native" \in SeqToSet(lp.tick.submitted) =>
       /\ lp.tick.shouldSweepNative
       /\ lp.tick.nativeTx.value > 0
       /\ lp.tick.nativeTx.value =
            lp.tick.nativeTx.balance - BasicTransferGas * lp.tick.nativeTx.feePrice
              - lp.tick.gasReserve * lp.tick.nativeTx.feePrice

\* C6: the sweepable native amount is nativeBalance - 21000 * feePrice -
\* tokenGasReserve * feePrice, a native transfer is submitted only if it is
\* positive and worth at least nativeUsdThreshold, and a tick whose amount is
\* below the threshold submits no native transfer and sends no notification.
C6_NativeReserveNoNotification ==
  \A lp \in Live :
    /\ NativeReserveRule(lp)
    /\ (NativeEvaluated(lp) /\ ~NativeClears(lp)) =>
         /\ "native" \notin SeqToSet(lp.tick.submitted)
         /\ lp.tick.notified = <<>>

\* C6 as amended: below the threshold the tick submits no native transfer and
\* sends no notification of a native sweep; it sends no notification at all
\* when it keeps no token.
C6_NativeReserveNoNativeNotification ==
  \A lp \in Live :
    /\ NativeReserveRule(lp)
    /\ (NativeEvaluated(lp) /\ ~NativeClears(lp)) =>
         /\ "native" \notin SeqToSet(lp.tick.submitted)
         /\ "native" \notin SeqToSet(lp.tick.notified)
         /\ Len(lp.tick.tokensToSweep) = 0 => lp.tick.notified = <<>>

\* C6 witness: a finished tick whose positive sweepable amount stayed below the
\* threshold because of the gas reserved for its tokens, and that swept a token
C6_Witness ==
  \E lp \in Live :
    /\ lp.tick.outcome = "executed"
    /\ SweepableNative(lp) > 0
    /\ ~NativeClears(lp)
    /\ NativeValueMeets(SweepableNative(lp) + lp.tick.gasReserve * lp.tick.effectiveGasPrice,
                        PriceOf(lp.tick.allPrices, "eth"), NativeUsdThreshold(env.config))
    /\ lp.tick.submitted # <<>>

\* amountReadable * price of a listed token, in 1/ValueScale of the USD unit
ListedValue(lp, t) ==
  t.balance * DecimalsFactor(t.decimals) * PriceOf(lp.tick.allPrices, ToLowerCase(t.symbol))

IsKept(lp, t) ==
  \E j \in 1 .. Len(lp.tick.tokensToSweep) : lp.tick.tokensToSweep[j].contract = t.contract

SubmittedValue(lp, contract) ==
  LET i == CHOOSE k \in 1 .. Len(lp.tick.tokens) : lp.tick.tokens[k].contract = contract
  IN ListedValue(lp, lp.tick.tokens[i])

\* C8: within one tick the native transfer is submitted before every token
\* transfer, the token transfers in non-increasing order of USD value, and a
\* transfer is submitted only after the one before it has returned.
C8_ExecutionOrder ==
  \A lp \in Live :
    LET sub == lp.tick.submitted
        native == IF "native" \in SeqToSet(sub) THEN 1 ELSE 0
    IN /\ \A i, j \in 1 .. Len(sub) :
            i < j => /\ sub[j] # "native"
                     /\ sub[i] # "native" =>
                          SubmittedValue(lp, sub[i]) >= SubmittedValue(lp, sub[j])
       /\ lp.pc = "awaitNative" => sub = <<>>
       /\ lp.pc = "awaitToken" => Len(sub) <= native + lp.tick.idx - 1

\* C8 witness: tokens listed as 50, 5, 20 were submitted as 50, 20, 5 after the
\* native transfer
C8_Witness ==
  \E lp \in Live :
    /\ Len(lp.tick.tokens) = 3
    /\ <<ListedValue(lp, lp.tick.tokens[1]), ListedValue(lp, lp.tick.tokens[2]),
         ListedValue(lp, lp.tick.tokens[3])>> = <<5000, 500, 2000>>
    /\ lp.tick.submitted = <<"native", "0xA", "0xC", "0xB">>

\* ------------------------------------------------------------- claims: PriceManager
\* the batch fetches of the queue that carry sym or will carry it: the queued
\* items of sym and the batch in flight if it holds sym
QueuedFetchesOf(sym) ==
  Cardinality({i \in 1 .. Len(requestQueue) : requestQueue[i].symbol = sym})
    + (IF fetches[0].pc # "none" /\ sym \in SeqToSet(fetches[0].symbols) THEN 1 ELSE 0)

\* C9: a getPrice call made while another getPrice call waits for the same
\* normalised symbol awaits the same promise: one queue item, so exactly one
\* outbound batch fetch, carries the symbol for both, and both return the same
\* price.
C9_GetPriceCoalesced ==
  \A c \in Callers :
    \A d \in callers[c].cohort :
      /\ callers[c].promiseOf # 0
      /\ callers[c].promiseOf = callers[d].promiseOf
      /\ callers[c].batches = callers[d].batches
      /\ callers[c].batches <= 1
      /\ callers[c].pc = callers[d].pc
      /\ callers[c].pc = "waiting" => QueuedFetchesOf(callers[c].symbols[1]) = 1
      /\ callers[c].pc = "returned" =>
           /\ callers[c].batches = 1
           /\ callers[c].result = callers[d].result

\* C9 witness: getPrice("ETH") and getPrice("eth") overlapped and both returned
\* the price of the one batch fetch
C9_Witness ==
  \E c \in Callers :
    \E d \in callers[c].cohort :
      /\ callers[c].pc = "returned"
      /\ callers[d].pc = "returned"
      /\ callers[c].raw # callers[d].raw
      /\ callers[c].batches = 1
      /\ callers[c].result = ("eth" :> 2100)
      /\ callers[d].result = ("eth" :> 2100)

\* the _batchFetchPrices calls in flight whose symbols include sym
FetchesInFlightOf(sym) ==
  {o \in Origins : fetches[o].pc # "none" /\ sym \in SeqToSet(fetches[o].symbols)}

\* C10: whatever the entry points, no symbol is ever in two outbound fetches
\* in flight at the same time.
C10_NoConcurrentFetchOfSymbol ==
  \A sym \in NormSymbols : Cardinality(FetchesInFlightOf(sym)) <= 1

\* the refresh of the queue's batch fails in this step: the oracle answers 429,
\* or the last attempt of the batch fails
RefreshFails ==
  \/ FetchRateLimited(0)
  \/ fetches[0].retryCount = MAX_RETRIES /\ FetchFails(0)

\* the getPrice callers that wait for the batch in flight
AwaitingBatch ==
  {d \in Callers : /\ callers[d].kind = "getPrice"
                   /\ callers[d].pc = "waiting"
                   /\ callers[d].promiseOf \in SeqToSet(fetches[0].items)}

\* C11: when the refresh of a symbol fails (429, or every attempt failed), every
\* getPrice call that waits for it returns the cached price of the symbol, stale
\* or not, and returns 0 only when the cache holds no entry for the symbol.
C11_StaleFallback ==
  [][RefreshFails =>
       \A d \in AwaitingBatch :
         LET sym == callers[d].symbols[1]
         IN /\ callers'[d].pc = "returned"
            /\ callers'[d].result =
                 (sym :> (IF cache[sym].has THEN cache[sym].price ELSE 0))
            /\ cache[sym].has => cache[sym].price # 0]_vars

\* C11 witness: after failed refreshes one getPrice call holds the price 2000 of
\* an entry older than CACHE_TTL and another holds 0 for a symbol never cached
C11_Witness ==
  \E c, d \in Callers :
    /\ callers[c].kind = "getPrice" /\ callers[c].pc = "returned"
    /\ callers[c].via = "fallback"
    /\ callers[c].result = ("eth" :> 2000)
    /\ cache["eth"] = [has |-> TRUE, price |-> 2000, age |-> 2]
    /\ callers[d].kind = "getPrice" /\ callers[d].pc = "returned"
    /\ callers[d].via = "fallback"
    /\ callers[d].result = ("usdc" :> 0)
    /\ ~cache["usdc"].has

\* ------------------------------------------------------------- claims: one tick (2)
\* the batch result of the tick has no price for the symbol, or the price 0
PriceUnknown(lp, symbol) ==
  \/ ToLowerCase(symbol) \notin DOMAIN lp.tick.allPrices
  \/ lp.tick.allPrices[ToLowerCase(symbol)] = 0

\* the listed tokens of the tick whose price is unknown
UnknownTokens(lp) ==
  {lp.tick.tokens[i].contract : i \in {j \in 1 .. Len(lp.tick.tokens) :
                                         PriceUnknown(lp, lp.tick.tokens[j].symbol)}}

\* C12: in every tick no token whose price is 0 or absent is planned or
\* transferred, and no native transfer is planned or submitted when the price of
\* the native symbol is 0 or absent.
C12_UnknownPriceNotSwept ==
  \A lp \in Live :
    /\ \A j \in 1 .. Len(lp.tick.tokensToSweep) :
         lp.tick.tokensToSweep[j].contract \notin UnknownTokens(lp)
    /\ SeqToSet(lp.tick.submitted) \cap UnknownTokens(lp) = {}
    /\ PriceUnknown(lp, NativeSymbol(lp.key[2])) =>
         /\ ~lp.tick.shouldSweepNative
         /\ lp.pc # "awaitNative"
         /\ "native" \notin SeqToSet(lp.tick.submitted)

\* C12 witness: a tick of a funded wallet whose native price is 0, with one
\* priced token, one token priced 0 and one token without price: only the
\* priced token was transferred
C12_Witness ==
  \E lp \in Live :
    /\ lp.tick.outcome = "executed"
    /\ lp.tick.nativeBalance = 5603000
    /\ lp.tick.allPrices = NoNativePrice
    /\ Len(lp.tick.tokens) = 3
    /\ Cardinality(UnknownTokens(lp)) = 2
    /\ lp.tick.submitted = <<"0xA">>

\* ------------------------------------------------------------- claims: the engine (2)
\* the closures of a key in the bag ls whose pc is in pcs
CountOf(ls, key, pcs) ==
  LET ofKey == {lp \in BagToSet(ls) : lp.key = key /\ lp.pc \in pcs}
  IN BagCardinality([lp \in ofKey |-> ls[lp]])

\* the next await of a tick in flight can be answered
CanContinue(lp) ==
  CASE lp.pc = "awaitBalance" -> ENABLED BalanceResult(lp)
    [] lp.pc = "awaitGas" -> ENABLED GasResult(lp)
    [] lp.pc = "awaitTokens" -> ENABLED TokensResult(lp)
    [] lp.pc = "awaitPrices" -> ENABLED PricesResult(lp)
    [] lp.pc = "awaitEstimate" -> ENABLED EstimateResult(lp)
    [] lp.pc = "awaitNative" -> ENABLED NativeResult(lp)
    [] lp.pc = "awaitToken" -> ENABLED TokenResult(lp)
    [] OTHER -> TRUE

\* what a step does to the closures of a key that is stopped before and after it
StoppedKeyStep(key) ==
  \* no tick begins
  /\ CountOf(loops', key, TickPcs) <= CountOf(loops, key, TickPcs)
  \* a timer that fires ends its closure: nothing is rescheduled
  /\ CountOf(loops', key, {"timer"}) < CountOf(loops, key, {"timer"}) =>
       /\ CountOf(loops', key, TickPcs) = CountOf(loops, key, TickPcs)
       /\ UNCHANGED <<processedTransactions, notifyCount, processingTransactions>>
  \* a tick in flight goes on: it moves to its next await or arms its timer
  /\ CountOf(loops', key, TickPcs \cup {"timer"})
       >= CountOf(loops, key, TickPcs)

\* C13: once a key is stopped and not started again, no tick of it begins, a
\* timer that fires ends its closure without fetching, transferring, notifying
\* or rescheduling; the stop itself cancels nothing, and a tick in flight keeps
\* answering its awaits to its end.
C13_StopIsCooperative ==
  /\ [][\A key \in Keys :
          /\ (~runningSweepers[key] /\ ~runningSweepers'[key]) => StoppedKeyStep(key)
          /\ (runningSweepers[key] /\ ~runningSweepers'[key]) => loops' = loops]_vars
  /\ [](\A lp \in Live : ~runningSweepers[lp.key] => CanContinue(lp))

\* C13 witness: the only closure of a stopped key entered its execution phase
\* after the stop (which had cleared the flag) and has submitted the native
\* transfer; its token transfer is under way
C13_Witness ==
  \E lp \in Live :
    /\ NumLoops = 1
    /\ ~runningSweepers[lp.key]
    /\ processingTransactions[lp.key]
    /\ lp.pc = "awaitToken"
    /\ lp.tick.submitted = <<"native">>
    /\ lp.tick.notified = <<"native">>

\* ------------------------------------------------------------- claims: the cycle
\* C14: while the running flag of a key is true the key has a tick in progress
\* or a timer pending; every tick in progress ends with the timer armed,
\* whatever failed inside it, and every armed timer starts the next tick.
C14_CycleGoesOn ==
  \A key \in TickUsers \X TickChains :
    /\ [](runningSweepers[key] => CountOf(loops, key, TickPcs \cup {"timer"}) >= 1)
    /\ (runningSweepers[key] /\ CountOf(loops, key, TickPcs) >= 1)
         ~> (CountOf(loops, key, {"timer"}) >= 1)
    /\ (runningSweepers[key] /\ CountOf(loops, key, {"timer"}) >= 1)
         ~> (CountOf(loops, key, {"awaitBalance"}) >= 1)

\* C14 witness: the timer is armed after a tick in which the native transfer
\* and the transfers of all three kept tokens threw
C14_Witness ==
  \E lp \in Live :
    /\ runningSweepers[lp.key]
    /\ lp.pc = "timer"
    /\ lp.tick.outcome = "executed"
    /\ lp.tick.failed = <<"native", "0xA", "0xC", "0xB">>

\* the contracts of the kept tokens, in plan order
PlanOf(lp) == [i \in 1 .. Len(lp.tick.tokensToSweep) |-> lp.tick.tokensToSweep[i].contract]

\* the sweepToken calls of the tick, in order
TokenAttempts(lp) == SelectSeq(lp.tick.attempted, LAMBDA x : x # "native")

\* C15: a transfer that throws stops nothing: during the execution phase the
\* sweepToken calls made so far are the first idx tokens of the plan, and a
\* finished phase has called sweepToken exactly once for every kept token, in
\* plan order, whatever failed before.
C15_PerTransferIsolation ==
  \A lp \in Live :
    /\ SeqToSet(lp.tick.failed) \subseteq SeqToSet(lp.tick.attempted)
    /\ lp.pc \in ExecPcs => TokenAttempts(lp) = SubSeq(PlanOf(lp), 1, lp.tick.idx)
    /\ lp.tick.outcome = "executed" =>
         /\ TokenAttempts(lp) = PlanOf(lp)
         /\ \A i, j \in 1 .. Len(PlanOf(lp)) : i # j => PlanOf(lp)[i] # PlanOf(lp)[j]

\* C15 witness: the native transfer and the first token transfer threw, the two
\* remaining tokens of the plan were attempted and submitted
C15_Witness ==
  \E lp \in Live :
    /\ lp.tick.outcome = "executed"
    /\ lp.tick.attempted = <<"native", "0xA", "0xC", "0xB">>
    /\ lp.tick.failed = <<"native", "0xA">>
    /\ lp.tick.submitted = <<"0xC", "0xB">>

\* C16: processingTransactions[key] is true only while an execution phase of
\* the key is in flight: the step that ends a phase, normally or after throws,
\* leaves the flag false as it arms the timer, and a tick is skipped only while
\* a phase is in flight.
C16_FlagNeverStuck ==
  /\ [](\A key \in Keys : processingTransactions[key] => ExecutingLoops(key) >= 1)
  /\ [][\A key \in Keys :
          (/\ CountOf(loops', key, ExecPcs) < CountOf(loops, key, ExecPcs)
           /\ CountOf(loops', key, {"timer"}) > CountOf(loops, key, {"timer"}))
          => ~processingTransactions'[key]]_vars

\* C16 witness: an execution phase in which both transfers threw has ended: the
\* timer of the running key is armed and the flag is false
C16_Witness ==
  \E lp \in Live :
    /\ runningSweepers[lp.key]
    /\ lp.pc = "timer"
    /\ lp.tick.outcome = "executed"
    /\ lp.tick.failed = <<"native", "0xA">>
    /\ ~processingTransactions[lp.key]

\* C17: startSweeperForUser with a chain key that has no configuration throws
\* to its caller and leaves the engine as it was: no start notification, no
\* closure, the running flags, the registry's keys and every chain status
\* unchanged; such a key never runs and never has a tick.
C17_UnsupportedChainRejected ==
  /\ [][\A u \in Users, c \in ChainKeys \ SupportedChains :
          StartSweeperForUser(u, c) =>
            /\ lastCall'.ret = "throws"
            /\ ~lastCall'.notified
            /\ UNCHANGED <<runningSweepers, processingTransactions, loops,
                           userSweepers, processedTransactions, notifyCount>>
            /\ \A v \in Users :
                 userSweeperStates'[v].chains = userSweeperStates[v].chains]_vars
  /\ [](\A u \in Users, c \in ChainKeys \ SupportedChains :
          /\ ~runningSweepers[<<u, c>>]
          /\ ~userSweeperStates[u].chains[c]
          /\ <<u, c>> \notin userSweepers
          /\ LoopsOf(<<u, c>>) = 0)

\* C17 witness: a start for the chain key "doge" has just thrown while the
\* same user's sweeper of a supported chain runs
C17_Witness ==
  /\ lastCall.op = "start"
  /\ lastCall.chain \notin SupportedChains
  /\ lastCall.ret = "throws"
  /\ runningSweepers[<<lastCall.user, "ethereum">>]
  /\ LoopsOf(<<lastCall.user, "ethereum">>) = 1

\* the tick ended before its execution phase, or at the guard
EndedEarly(lp) == lp.tick.outcome \in {"balanceError", "skipped", "dustTokens", "dustNative"}

\* the wallet is dust for the tokens the tick kept, or for the native transfer
DustWallet(lp) ==
  \/ /\ Len(lp.tick.tokensToSweep) > 0
     /\ lp.tick.nativeBalance < NativeTransferCostOf(lp) + TokenTransferCostOf(lp)
  \/ /\ lp.tick.nativeBalance > 0
     /\ lp.tick.nativeBalance < NativeTransferCostOf(lp)

\* nothing passed the tick's evaluation: no token was kept (value below the
\* threshold, price missing, listing failed) and the native amount did not clear
NothingToSweep(lp) ==
  /\ NativeEvaluated(lp)
  /\ lp.tick.tokensToSweep = <<>>
  /\ ~NativeClears(lp)

LastReturned(lp) ==
  lp.tick.attempted[Len(lp.tick.attempted) - (IF lp.pc = "awaitToken" THEN 1 ELSE 0)]

\* C19: notify is invoked for a transfer only if it was confirmed or its wait
\* timed out: a submission that throws is never notified, and a transfer whose
\* wait ended with a failed receipt or with a rejection other than the timeout
\* counts as failed and is not notified.
C19_NotifyOnlyConfirmedOrTimeout ==
  \A lp \in Live :
    /\ SeqToSet(lp.tick.failed) \cap SeqToSet(lp.tick.notified) = {}
    /\ lp.tick.lastWait = "failed" =>
         /\ LastReturned(lp) \notin SeqToSet(lp.tick.notified)
         /\ LastReturned(lp) \in SeqToSet(lp.tick.failed)

\* what the code does guarantee: a sweep call that throws (before or at the
\* send) is never notified, and every notification is for a submitted transfer
NotifyOnlySubmitted ==
  \A lp \in Live :
    /\ SeqToSet(lp.tick.failed) \cap SeqToSet(lp.tick.notified) = {}
    /\ SeqToSet(lp.tick.notified) \subseteq SeqToSet(lp.tick.submitted)
    /\ SeqToSet(lp.tick.submitted) \cap SeqToSet(lp.tick.failed) = {}

\* the dedup test and the notification for the hash tx
DedupAndNotify(tx) ==
  IF tx \in SeqToSet(processedTransactions)
  THEN UNCHANGED <<processedTransactions, notifyCount>>
  ELSE /\ processedTransactions' = Append(processedTransactions, tx)
       /\ notifyCount'[tx] = Min(notifyCount[tx] + 1, 2)

\* a sweep call of the closure l returns after its wait timed out
TimeoutReturns(l, tx) ==
  \/ TokenResultWith(l, "timeout", tx)
  \/ \E ans \in {a \in env.balanceAnswers : a.ok}, feeData \in env.feeDatas :
       /\ SweepNativeAmount(ans.value, GetOptimalGasPricing(feeData), l.tick.gasReserve) > 0
       /\ NativeResultWith(l, ans, feeData, "timeout", tx)

\* C20: when the confirmation wait of a submitted transfer times out the sweep
\* function returns the hash: the tick passes it to the dedup test and notifies
\* as for a confirmed transfer, counts no failure, and goes on with the next
\* token of the plan or arms its timer.
C20_TimeoutIsNotAnError ==
  /\ [][\A l \in Live, tx \in TxIds :
          TimeoutReturns(l, tx) =>
            /\ DedupAndNotify(tx)
            /\ CountOf(loops', l.key, {"awaitToken", "timer"})
                 > CountOf(loops, l.key, {"awaitToken", "timer"})
                     - (IF l.pc = "awaitToken" THEN 1 ELSE 0)]_vars
  /\ [](\A lp \in Live :
          lp.tick.lastWait = "timeout" =>
            /\ LastReturned(lp) \in SeqToSet(lp.tick.submitted)
            /\ LastReturned(lp) \notin SeqToSet(lp.tick.failed)
            /\ lp.pc \in {"awaitToken", "timer"})

\* C20 witness: the wait of the native transfer timed out; its hash is in the
\* dedup set, it was notified, and the tick is at its first token transfer
C20_Witness ==
  \E lp \in Live :
    /\ lp.tick.lastWait = "timeout"
    /\ lp.pc = "awaitToken"
    /\ lp.tick.attempted = <<"native", "0xA">>
    /\ lp.tick.submitted = <<"native">>
    /\ lp.tick.notified = <<"native">>
    /\ Len(processedTransactions) = 1

\* ------------------------------------------------------------- claims: the oracle
\* the oracle calls the fetch of origin o has made, the one in flight included
Attempts(o) == IF fetches[o].pc = "none" THEN 0 ELSE fetches[o].retryCount + 1

\* what _batchFetchPrices returns when it falls back for the fetch of origin o
CachedOf(o) ==
  [sym \in {t \in SeqToSet(fetches[o].symbols) : cache[t].has} |-> cache[sym].price]

\* the fetch of origin o returns prices to who awaits it: the getPrices call of
\* o, or the getPrice calls of the queue's batch
ReturnsCached(o) ==
  /\ fetches'[o] = NoFetch
  /\ IF o = 0
     THEN \A d \in AwaitingBatch :
            /\ callers'[d].pc = "returned"
            /\ callers'[d].result =
                 (callers[d].symbols[1] :>
                    IF callers[d].symbols[1] \in DOMAIN CachedOf(0)
                    THEN CachedOf(0)[callers[d].symbols[1]] ELSE 0)
     ELSE /\ callers'[o].pc = "returned"
          /\ callers'[o].result = CachedOf(o) @@ callers[o].result

\* C21 as stated: when every oracle call of a batch fails with an error other
\* than the rate limit, the batch fetch makes at most 3 attempts in total.
C21_AtMostThreeAttempts == \A o \in Origins : Attempts(o) <= 3

\* C21 amended: a batch fetch makes at most MAX_RETRIES + 1 = 4 attempts (the
\* first and 3 retries); a failed attempt that is not the last waits
\* RETRY_DELAY * 2^(retries so far), twice the delay before, and changes neither
\* the cache nor a caller; the failure of the last attempt returns the cached
\* prices of the requested symbols, possibly none, and does not throw.
C21_BoundedRetry ==
  [][\A o \in Origins : FetchFails(o) =>
       /\ Attempts(o) <= MAX_RETRIES + 1
       /\ cache' = cache
       /\ IF Attempts(o) <= MAX_RETRIES
          THEN /\ fetches'[o].pc = "awaitDelay"
               /\ fetches'[o].retryCount = fetches[o].retryCount
               /\ fetches'[o].delay = RETRY_DELAY * 2 ^ (Attempts(o) - 1)
               /\ Attempts(o) > 1 => fetches'[o].delay = 2 * fetches[o].delay
               /\ callers' = callers
          ELSE ReturnsCached(o)]_vars

\* C21 witness: the oracle never rate limits, and a getPrice call has returned
\* the price of an entry older than CACHE_TTL after the fourth attempt failed
C21_Witness ==
  /\ "429" \notin env.oracle
  /\ \E c \in Callers :
       /\ callers[c].kind = "getPrice" /\ callers[c].pc = "returned"
       /\ callers[c].via = "fallback"
       /\ callers[c].result = ("eth" :> 2000)
       /\ cache["eth"].age = 2

\* C22: on a 429 answer, whatever the attempt, the batch fetch ends in the same
\* step (no retry, no backoff delay), returns the cached prices of the requested
\* symbols to who awaits it, and leaves the cache as it is.
C22_RateLimitReturnsCached ==
  [][\A o \in Origins : FetchRateLimited(o) =>
       /\ fetches[o].pc = "awaitFetch"
       /\ fetches'[o].pc \notin {"awaitDelay", "awaitFetch"}
       /\ ReturnsCached(o)
       /\ cache' = cache]_vars

\* C22 witness: the oracle only answers or rate limits, and after a 429 a
\* getPrice call holds the price of an entry that is no longer fresh while a
\* getPrice call for a symbol never cached holds 0
C22_Witness ==
  /\ "fails" \notin env.oracle
  /\ \E c, d \in Callers :
       /\ callers[c].kind = "getPrice" /\ callers[c].pc = "returned"
       /\ callers[c].via = "fallback"
       /\ callers[c].result = ("eth" :> 2000)
       /\ cache["eth"] = [has |-> TRUE, price |-> 2000, age |-> 1]
       /\ callers[d].kind = "getPrice" /\ callers[d].pc = "returned"
       /\ callers[d].via = "fallback"
       /\ callers[d].result = ("usdc" :> 0)
       /\ ~cache["usdc"].has

\* C23: every outbound oracle request, whether it comes from the queue of
\* getPrice or from a getPrices call, carries at most BATCH_SIZE symbols.
C23_RequestWithinBatchSize ==
  \A o \in Origins :
    fetches[o].pc # "none" => Len(fetches[o].symbols) <= BATCH_SIZE

\* an entry that getPrice and getPrices no longer serve: its age is CACHE_TTL or more
IsStale(entry) == entry.has /\ ~IsFresh(entry)

\* C24: clearExpired evicts only past a horizon longer than CACHE_TTL, so a pass
\* does not remove an entry merely because its age is above CACHE_TTL: the
\* stale entries short of that horizon stay, to be served as a fallback. (Age
\* class 2 is every age above CACHE_TTL, the entries just past it included; the
\* code has a single test for the whole class.)
C24_StaleSurvivesCleanup ==
  [][ClearExpiredCache =>
       \A sym \in DOMAIN cache : IsStale(cache[sym]) => cache'[sym] = cache[sym]]_vars

\* what the pass does keep: the entries whose age is at most CACHE_TTL, the
\* stale entry of age exactly CACHE_TTL among them
ClearExpiredKeepsUpToTtl ==
  [][ClearExpiredCache =>
       \A sym \in DOMAIN cache :
         cache'[sym] = IF cache[sym].age = 2 THEN NoEntry ELSE cache[sym]]_vars

\* C25: an entry leaves the cache only in a clearExpired pass; no step of
\* getPrice, getPrices or the batch fetch, successful or failed, removes one,
\* and the only other changes of an entry are the passing of time and a
\* successful refresh, which stores a price with a newer timestamp.
C25_OnlyCleanupRemoves ==
  [][\A sym \in DOMAIN cache :
       cache[sym].has /\ cache'[sym] # cache[sym] =>
         \/ ClearExpiredCache /\ cache[sym].age = 2 /\ cache'[sym] = NoEntry
         \/ CacheAges(sym) /\ cache'[sym] = [cache[sym] EXCEPT !.age = @ + 1]
         \/ /\ \E o \in Origins : FetchSucceeds(o) /\ sym \in SeqToSet(fetches[o].symbols)
            /\ cache'[sym].has
            /\ cache'[sym].age = 0
            /\ cache'[sym].age <= cache[sym].age]_vars

\* C25 witness: the oracle answered a batch without a price for eth, the getPrice
\* call got 0, and the entry of eth, older than CACHE_TTL, is still in the cache
C25_Witness ==
  \E c \in Callers :
    /\ callers[c].kind = "getPrice" /\ callers[c].pc = "returned"
    /\ callers[c].via = "none"
    /\ callers[c].result = ("eth" :> 0)
    /\ cache["eth"] = [has |-> TRUE, price |-> 2000, age |-> 2]

\* the requested symbols that are fresh in the cache, and their cached prices
FreshOf(symbols) == {sym \in SeqToSet(NormalizeSymbols(symbols)) : IsFresh(cache[sym])}
FreshPrices(symbols) == [sym \in FreshOf(symbols) |-> cache[sym].price]

\* this step starts no oracle call except, possibly, the fetch of origin o
NoFetchStartedBut(o) ==
  /\ \A p \in Origins \ {o} : fetches'[p] = fetches[p]
  /\ requestQueue' = requestQueue
  /\ pendingRequests' = pendingRequests
  /\ cache' = cache

\* C26: a getPrice call for a symbol that is fresh in the cache returns the
\* cached price in the call itself and starts no oracle call; a getPrices call
\* takes its fresh symbols from the cache and sends exactly the other requested
\* symbols to the batch fetch, and nothing when every symbol is fresh.
C26_FreshServedFromCache ==
  [][/\ \A c \in Callers, s \in env.getPriceInputs :
          GetPrice(c, s) /\ IsFresh(cache[ToLowerCase(s)]) =>
            /\ callers'[c].pc = "returned"
            /\ callers'[c].result = (ToLowerCase(s) :> cache[ToLowerCase(s)].price)
            /\ fetches' = fetches
            /\ NoFetchStartedBut(0)
     /\ \A c \in Callers, symbols \in env.getPricesInputs :
          GetPrices(c, symbols) =>
            /\ NoFetchStartedBut(c)
            /\ callers'[c].result = FreshPrices(symbols)
            /\ IF FreshOf(symbols) = SeqToSet(NormalizeSymbols(symbols))
               THEN fetches' = fetches /\ callers'[c].pc = "returned"
               ELSE /\ fetches'[c].pc = "awaitFetch"
                    /\ SeqToSet(fetches'[c].symbols) =
                         SeqToSet(NormalizeSymbols(symbols)) \ FreshOf(symbols)]_vars

\* C26 witness: with eth fresh in the cache and no entry for usdc, a getPrice
\* call for ETH has returned 2000 without a request of its own, and a getPrices
\* call for ETH and usdc holds 2000 and waits for a fetch of usdc alone
C26_Witness ==
  \E c, d \in Callers :
    /\ callers[c].kind = "getPrice" /\ callers[c].pc = "returned"
    /\ callers[c].promiseOf = 0
    /\ callers[c].result = ("eth" :> 2000)
    /\ callers[d].kind = "getPrices" /\ callers[d].pc = "waiting"
    /\ callers[d].result = ("eth" :> 2000)
    /\ fetches[d].symbols = <<"usdc">>
    /\ fetches[0].pc = "none"
    /\ IsFresh(cache["eth"])

\* ------------------------------------------------------------- claims: gas
\* x raised by 50%, rounded down
RaisedByHalf(x) == (3 * x) \div 2

\* the fee data carries both a cap fee and a tip fee
HasCapAndTip(feeData) == feeData.maxFeePerGas # 0 /\ feeData.maxPriorityFeePerGas # 0

ReserveOf(est) == IF est.ok THEN (6 * est.gas) \div 5 ELSE 78000

\* C28: the token gas reserve is the sum, over all kept tokens, of the token's
\* estimate plus 20% (78000 for a token whose estimation fails, the other
\* tokens being estimated all the same), and the tick keeps that sum.
C28_TokenGasReserve ==
  [][\A l \in Live :
       \A ests \in [1 .. Len(l.tick.tokensToSweep) -> env.estimates] :
         EstimateResultWith(l, ests) =>
           /\ Len(ests) = Len(l.tick.tokensToSweep)
           /\ EstimateTokenGasCosts(ests) =
                SumSeq([i \in 1 .. Len(ests) |-> ReserveOf(ests[i])])
           /\ \E after \in BagToSet(loops') :
                after.tick.gasReserve = EstimateTokenGasCosts(ests)]_vars

\* C28 witness: of three kept tokens two were estimated at 50003 and the
\* estimation of one failed: the reserve is 60003 + 78000 + 60003
C28_Witness ==
  \E l \in Live :
    /\ Len(l.tick.tokensToSweep) = 3
    /\ l.tick.outcome \in {"executing", "executed"}
    /\ l.tick.gasReserve = 198006

\* ------------------------------------------------------------- claims: the registry
\* the chains on which the cycle of account u runs
RunningChains(u) == {c \in ChainKeys : runningSweepers[<<u, c>>]}

\* the status and the flags of every key of the accounts other than those of
\* gone are as before the step
OthersUntouched(gone) ==
  \A u \in Users \ gone :
    /\ userSweeperStates'[u] = userSweeperStates[u]
    /\ \A c \in ChainKeys :
         /\ runningSweepers'[<<u, c>>] = runningSweepers[<<u, c>>]
         /\ processingTransactions'[<<u, c>>] = processingTransactions[<<u, c>>]
         /\ (<<u, c>> \in userSweepers') = (<<u, c>> \in userSweepers)

\* C29: stopAllSweepersForUser(u) leaves the status and the running flag of
\* every chain of u false, returns the number of cycles of u that ran, and
\* leaves the status and the flags of every key of every other account as they
\* were; stopSweeper(chain, u) changes the flags of the key (u, chain) alone.
C29_StopIsScoped ==
  [][\A u \in env.users :
       StopAllSweepersForUser(u) =>
         /\ \A c \in ChainKeys :
              /\ ~userSweeperStates'[u].chains[c]
              /\ ~runningSweepers'[<<u, c>>]
         /\ lastCall'.count = Cardinality(RunningChains(u))
         /\ OthersUntouched({u})
         /\ \A k \in Keys :
              /\ ~StopSweeperFlags({k}, runningSweepers)[k]
              /\ \A other \in Keys \ {k} :
                   /\ StopSweeperFlags({k}, runningSweepers)[other]
                        = runningSweepers[other]
                   /\ StopSweeperFlags({k}, processingTransactions)[other]
                        = processingTransactions[other]]_vars

\* C29 witness: stopAllSweepersForUser("u1") has just returned 1, no cycle of u1
\* runs, and the cycle of u2 on the same chain still runs with its status true
C29_Witness ==
  /\ lastCall.op = "stopUser" /\ lastCall.user = "u1" /\ lastCall.count = 1
  /\ RunningChains("u1") = {}
  /\ runningSweepers[<<"u2", "ethereum">>]
  /\ userSweeperStates["u2"].chains["ethereum"]
  /\ \E l \in Live : l.key = <<"u1", "ethereum">>

\* C30: cleanupInactiveUsers leaves every account inactive for more than 24
\* hours without registry state and with all its cycles stopped (the cycles are
\* stopped from the state before it is removed, so no running flag of the
\* account stays true), leaves the accounts active within 24 hours with their
\* state and their running cycles, and returns the number of accounts purged.
C30_InactivePurge ==
  [][\A inactive \in SUBSET env.users :
       CleanupInactiveUsers(inactive) =>
         /\ \A u \in inactive :
              /\ ~userSweeperStates'[u].has
              /\ \A c \in ChainKeys :
                   /\ ~userSweeperStates'[u].chains[c]
                   /\ ~runningSweepers'[<<u, c>>]
                   /\ <<u, c>> \notin userSweepers'
         /\ OthersUntouched(inactive)
         /\ lastCall'.count =
              Cardinality({u \in inactive : userSweeperStates[u].has})]_vars

\* C30 witness: a purge has just returned 1: u1, whose cycle on ethereum ran
\* (its closure is still alive), has no state and no running cycle left, while
\* u2 keeps its state and its running cycle on polygon
C30_Witness ==
  /\ lastCall.op = "cleanupUsers" /\ lastCall.count = 1
  /\ ~userSweeperStates["u1"].has
  /\ RunningChains("u1") = {}
  /\ \E l \in Live : l.key = <<"u1", "ethereum">>
  /\ userSweeperStates["u2"].has
  /\ userSweeperStates["u2"].chains["polygon"]
  /\ runningSweepers[<<"u2", "polygon">>]

\* ------------------------------------------------------------- claims: start and ticks
\* the closure a successful startSweeper leaves behind: loop() has run to its
\* first await and has read nothing yet
FirstTick(key) ==
  [key |-> key, pc |-> "awaitBalance", isFirstRun |-> TRUE, tick |-> TickLocals]

\* the step leaves one more closure like lp than there was
Added(lp) == CopiesIn(lp, loops') > CopiesIn(lp, loops)

\* C31: a start call that passes the running check and gets its wallet sends
\* the start notification once and leaves exactly one new closure, whose first
\* tick is already at its first await (it has done nothing yet, so the
\* notification precedes everything the tick does, and it did not wait for
\* pollInterval); any other start call sends no start notification and creates
\* no closure. Every later tick of a closure begins when the timer fires that
\* the end of its previous tick armed.
C31_StartAndTickTiming ==
  [][/\ \A u \in env.users, c \in env.chains :
          StartSweeperForUser(u, c) =>
            IF lastCall'.ret = "true" /\ ~runningSweepers[<<u, c>>]
            THEN /\ lastCall'.notified
                 /\ loops' = loops (+) SetToBag({FirstTick(<<u, c>>)})
            ELSE /\ ~lastCall'.notified
                 /\ loops' = loops
     /\ \A lp \in BagToSet(loops') :
          (lp.pc = "awaitBalance" /\ Added(lp)) =>
            /\ lp.tick = TickLocals
            /\ \/ /\ lp.isFirstRun
                  /\ lastCall'.op = "start" /\ lastCall'.notified
                  /\ lp.key = <<lastCall'.user, lastCall'.chain>>
               \/ /\ ~lp.isFirstRun
                  /\ \E l \in Live : /\ l.key = lp.key
                                     /\ l.pc = "timer"
                                     /\ l.tick.outcome # "none"
                                     /\ TimerFires(l)]_vars

\* C31 witness: a start has just been notified and its first tick is at its
\* first await, next to an older closure of the key whose later tick began
\* when its timer fired
C31_Witness ==
  /\ lastCall.op = "start" /\ lastCall.notified
  /\ FirstTick(<<lastCall.user, lastCall.chain>>) \in Live
  /\ \E lp \in Live : /\ lp.key = <<lastCall.user, lastCall.chain>>
                      /\ lp.pc = "awaitBalance"
                      /\ ~lp.isFirstRun

\* C32: after a cleanupProcessedTransactions call the set holds at most 1000
\* hashes; if it held more than 1000 it holds exactly the 500 inserted last, in
\* their order, and if it held 1000 or fewer it is unchanged.
C32_ProcessedSetBound ==
  [][CleanupProcessedTransactions =>
       LET before == processedTransactions
           after == processedTransactions'
       IN /\ Len(after) <= 1000
          /\ Len(before) > 1000 =>
               /\ Len(after) = 500
               /\ \A i \in 1 .. 500 : after[i] = before[Len(before) - 500 + i]
          /\ Len(before) <= 1000 => after = before]_vars

\* C32 witness: the set held the 1000 hashes "1" .. "1000", a sweep added "0xa",
\* and a cleanup has left the 500 hashes "502" .. "1000", "0xa"
C32_Witness ==
  /\ Len(processedTransactions) = 500
  /\ processedTransactions[1] = "502"
  /\ processedTransactions[499] = "1000"
  /\ processedTransactions[500] = "0xa"

\* the tick is in its execution phase or has finished it
EnteredExecution(lp) == lp.tick.outcome \in {"executing", "executed"}

\* C33: whenever a tick has entered the execution phase with k >= 1 kept
\* tokens, the native balance it read covers the cost of the native transfer
\* and of all k token transfers at the fee level of the tick.
C33_NoPartialSweep ==
  \A lp \in Live :
    (EnteredExecution(lp) /\ Len(lp.tick.tokensToSweep) >= 1) =>
      lp.tick.nativeBalance >=
        NativeTransferCostOf(lp) + Len(lp.tick.tokensToSweep) * TokenTransferCostOf(lp)

\* what the dust test of lines 665-683 does guarantee: the balance covers the
\* native transfer and one token transfer
CoversOneTokenTransfer ==
  \A lp \in Live :
    (EnteredExecution(lp) /\ Len(lp.tick.tokensToSweep) >= 1) =>
      lp.tick.nativeBalance >= NativeTransferCostOf(lp) + TokenTransferCostOf(lp)

\* a tick with three kept tokens executes on a balance that covers one token
\* transfer only
PartialSweepReached ==
  \E lp \in Live :
    /\ EnteredExecution(lp)
    /\ Len(lp.tick.tokensToSweep) = 3
    /\ lp.tick.nativeBalance = 300000
    /\ lp.tick.attempted # <<>>

\* a transfer-execution phase of the key is in flight: a closure of the key is
\* suspended at a sweepNative or sweepToken call
ExecutionInFlight(key) == \E lp \in Live : lp.key = key /\ lp.pc \in ExecPcs

\* C34: whenever a transfer-execution phase of a key is in flight,
\* processingTransactions[key] is true, whatever stop and start calls were made
\* during the phase.
C34_FlagReflectsExecution ==
  \A key \in Keys : ExecutionInFlight(key) => processingTransactions[key]

\* the same for a key that is started once and never stopped
FlagSetWhileExecuting ==
  \A key \in TickUsers \X TickChains :
    ExecutionInFlight(key) => processingTransactions[key]

\* a transfer of the key is in flight after a stop call cleared the flag
StoppedWhileExecuting ==
  \E key \in Keys :
    /\ ExecutionInFlight(key)
    /\ ~processingTransactions[key]
    /\ lastCall.op \in {"stopUser", "stopAll"}

\* C35: when sweepNative has read a balance that is 0 or not above the total
\* gas needed (21000 * price + gasReserve * price at the fee level it read), it
\* submits nothing and returns null, so nothing is recorded or notified; when it
\* submits a transfer, the value is the balance less that total, so the value,
\* the native transfer cost and the reserved token gas fit in the balance.
C35_NativeKeepsGas ==
  [][\A l \in Live, ans \in env.balanceAnswers, feeData \in env.feeDatas,
        outcome \in env.sendOutcomes, tx \in env.txIds :
       NativeResultWith(l, ans, feeData, outcome, tx) =>
         LET price == EffectiveGasPrice(GetOptimalGasPricing(feeData))
             nativeTransferCost == 21000 * price
             reserved == l.tick.gasReserve * price
         IN \A lp \in BagToSet(loops') :
              IF ans.value = 0 \/ ans.value <= nativeTransferCost + reserved
              THEN /\ lp.tick.submitted = <<>>
                   /\ lp.tick.notified = <<>>
                   /\ lp.tick.failed = <<>>
                   /\ processedTransactions' = processedTransactions
              ELSE Submitted(outcome) =>
                   /\ lp.tick.submitted = <<"native">>
                   /\ lp.tick.nativeTx.balance = ans.value
                   /\ lp.tick.nativeTx.value = ans.value - nativeTransferCost - reserved
                   /\ lp.tick.nativeTx.value > 0
                   /\ lp.tick.nativeTx.value + nativeTransferCost + reserved
                        <= ans.value]_vars

\* C35 witness: with 60000 gas reserved for a token, sweepNative read the
\* balance 243001 at the price 3 and submitted the value 1
C35_Witness ==
  \E lp \in Live :
    /\ lp.tick.gasReserve = 60000
    /\ lp.tick.submitted # <<>> /\ lp.tick.submitted[1] = "native"
    /\ lp.tick.nativeTx = [balance |-> 243001, value |-> 1, feePrice |-> 3]

\* sweepNative returned null on a balance that its own gas and the reserve use
\* up: the tick evaluated 5243000, the call read 243000
NativeReturnedNull ==
  \E lp \in Live :
    /\ lp.tick.attempted # <<>> /\ lp.tick.attempted[1] = "native"
    /\ lp.pc # "awaitNative"
    /\ lp.tick.submitted = <<>> /\ lp.tick.failed = <<>>
    /\ lp.tick.idx = 0

\* C36: when getTokenBalances has answered with a listing, a token of the
\* listing that cannot be evaluated (its symbol is missing) does not end the
\* evaluation: the tick goes on to fetch the prices of the listing, so that the
\* other tokens and the native balance are priced, evaluated and swept.
C36_EvaluationIsolation ==
  [][\A l \in Live, ans \in env.tokenAnswers :
       (ans.ok /\ TokensResultWith(l, ans)) =>
         \A lp \in BagToSet(loops') :
           /\ lp.pc = "awaitPrices"
           /\ lp.tick.tokens = ans.tokens]_vars

\* the same for the listings whose tokens all have a symbol
ListingIsPriced ==
  [][\A l \in Live, ans \in env.tokenAnswers :
       (/\ ans.ok
        /\ \A i \in 1 .. Len(ans.tokens) : ans.tokens[i].symbol # "undef"
        /\ TokensResultWith(l, ans)) =>
         \A lp \in BagToSet(loops') :
           /\ lp.pc = "awaitPrices"
           /\ lp.tick.tokens = ans.tokens]_vars

\* C37: a tick whose token listing fails (getTokenBalances throws, or the
\* collection of the symbols does) keeps no token and has no prices; it submits
\* no transfer, token or native, records and notifies nothing, leaves the
\* executing flag cleared and arms the timer of the next tick.
C37_ListingFailureSweepsNothing ==
  [][\A l \in Live, ans \in env.tokenAnswers :
       (ListingThrows(ans) /\ TokensResultWith(l, ans)) =>
         /\ processedTransactions' = processedTransactions
         /\ notifyCount' = notifyCount
         /\ \A lp \in BagToSet(loops') :
              /\ lp.pc = "timer"
              /\ lp.tick.outcome \in {"dustNative", "executed"}
              /\ lp.tick.tokensToSweep = <<>>
              /\ DOMAIN lp.tick.allPrices = {}
              /\ ~lp.tick.shouldSweepNative
              /\ lp.tick.attempted = <<>>
              /\ lp.tick.submitted = <<>>
              /\ lp.tick.notified = <<>>
              /\ ~processingTransactions'[lp.key]]_vars

\* C37 witness: the tick of a wallet with 5603000 of native balance has gone
\* through its execution phase without prices (the evaluation never ran) and
\* without a transfer, and waits for its timer with the flag cleared
C37_Witness ==
  \E lp \in Live :
    /\ lp.pc = "timer"
    /\ lp.tick.outcome = "executed"
    /\ ~lp.tick.evaluated
    /\ lp.tick.nativeBalance = 5603000
    /\ DOMAIN lp.tick.allPrices = {}
    /\ lp.tick.attempted = <<>>
    /\ ~processingTransactions[lp.key]

\* ------------------------------------------------------------- claims: registry and engine
\* getUserSweeperStatus(u, c): userState[chainKey] || false
GetUserSweeperStatus(u, c) == userSweeperStates[u].chains[c]

\* C38: after any sequence of start, stop and purge calls of the registry, the
\* starts that throw included, getUserSweeperStatus(u, c) is true exactly when
\* runningSweepers[u-c] is true, and userSweepers holds an entry for (u, c)
\* exactly then.
C38_RegistryMatchesEngine ==
  \A key \in Keys :
    /\ GetUserSweeperStatus(key[1], key[2]) = runningSweepers[key]
    /\ (key \in userSweepers) = runningSweepers[key]

\* C38 witness: a start of u1 on the rejected chain has just thrown, after a
\* purge or a stop of u2, while u1 runs on ethereum: status, flag and entry
\* agree on the key that runs and on the keys that do not
C38_Witness ==
  /\ lastCall.op = "start" /\ lastCall.ret = "throws" /\ lastCall.user = "u1"
  /\ runningSweepers[<<"u1", "ethereum">>]
  /\ GetUserSweeperStatus("u1", "ethereum")
  /\ <<"u1", "ethereum">> \in userSweepers
  /\ ~GetUserSweeperStatus("u1", "doge") /\ ~runningSweepers[<<"u1", "doge">>]
  /\ \E l \in Live : l.key = <<"u2", "polygon">>
  /\ ~GetUserSweeperStatus("u2", "polygon") /\ ~runningSweepers[<<"u2", "polygon">>]

\* ------------------------------------------------------------- claims: the request queue
\* the getPrice call of c waits for the request it placed in requestQueue
WaitsForOwnRequest(c) ==
  /\ callers[c].kind = "getPrice"
  /\ callers[c].pc = "waiting"
  /\ callers[c].promiseOf = c

\* the item of c is still in requestQueue
Queued(c) == \E i \in 1 .. Len(requestQueue) : requestQueue[i].creator = c

\* the step starts the fetch of a batch taken from the queue
BatchTaken == queuePc' = "fetching" /\ queuePc # "fetching"

\* C39: when every oracle call completes and every timer fires, each getPrice
\* call that waits for a request, its own or one it joined, returns, a request
\* enqueued while another batch is processed included; when such a call
\* returns, pendingRequests holds no entry for its symbol;
\* a batch is taken from the queue only while none is in flight, and the flag
\* is set for as long as one is.
C39_GetPriceReturns ==
  /\ \A c \in Callers :
       (callers[c].kind = "getPrice" /\ callers[c].pc = "waiting")
         ~> (callers[c].pc = "returned")
  /\ \A c \in Callers : (WaitsForOwnRequest(c) /\ Queued(c)) ~> ~Queued(c)
  /\ [][\A c \in Callers :
          (/\ callers[c].kind = "getPrice"
           /\ callers[c].pc = "waiting"
           /\ callers'[c].pc = "returned") =>
            pendingRequests'[callers[c].symbols[1]] = 0]_vars
  /\ [][BatchTaken => fetches[0].pc = "none"]_vars
  /\ [](fetches[0].pc # "none" => isProcessingQueue /\ queuePc = "fetching")

\* C39 witness: a getPrice call waits for a request that was enqueued while
\* the batch of another call is in flight
C39_Witness ==
  \E c, d \in Callers :
    /\ c # d
    /\ WaitsForOwnRequest(c) /\ Queued(c)
    /\ WaitsForOwnRequest(d) /\ ~Queued(d)
    /\ fetches[0].pc = "awaitFetch"
    /\ fetches[0].items = <<d>>
    /\ isProcessingQueue

\* the accounts that have at least one active sweep cycle
AccountsWithActiveCycle ==
  {u \in Users : \E c \in ChainKeys : GetUserSweeperStatus(u, c)}

\* the step is a read-only query of the registry
ReadOnlyQuery ==
  \/ \E u \in env.users, c \in env.chains : GetUserSweeperStatusCall(u, c)
  \/ \E u \in env.users : GetUserActiveSweepersCall(u)

\* C40: the activeUsers of getGlobalStats is the number of accounts with at
\* least one active sweep cycle, its totalActiveSweepers is the number of
\* (account, chain) keys whose status is true, and a getUserSweeperStatus or
\* getUserActiveSweepers call changes neither figure.
C40_GlobalStats ==
  /\ [](ActiveUsers = Cardinality(AccountsWithActiveCycle))
  /\ [](TotalActiveSweepers =
          Cardinality({k \in Keys : GetUserSweeperStatus(k[1], k[2])}))
  /\ [][ReadOnlyQuery => /\ ActiveUsers' = ActiveUsers
                         /\ TotalActiveSweepers' = TotalActiveSweepers]_vars

\* what holds of the two figures: totalActiveSweepers is exact and no query
\* changes it; activeUsers is never below the number of accounts with an
\* active cycle
StatsThatHold ==
  /\ [](TotalActiveSweepers =
          Cardinality({k \in Keys : GetUserSweeperStatus(k[1], k[2])}))
  /\ [](ActiveUsers >= Cardinality(AccountsWithActiveCycle))
  /\ [][ReadOnlyQuery => TotalActiveSweepers' = TotalActiveSweepers]_vars

\* a status query of an account that never started anything has made
\* activeUsers 1 while no sweep cycle is active
QueryCountedAsActive ==
  /\ lastCall.op = "status" /\ lastCall.ret = "false"
  /\ ActiveUsers = 1
  /\ AccountsWithActiveCycle = {}
  /\ loops = EmptyBag

====
